---------------------------- MODULE Spec2Model ----------------------------
(***************************************************************************)
(* agentnet-openclaw: the daemon (internal/daemon/daemon.go) driving one   *)
(* relay client (internal/client) and serving the local HTTP API.          *)
(*                                                                         *)
(* The state is the Daemon struct (client, messages, joinedRooms), the     *)
(* sessions the daemon has opened (each with its message channel and the   *)
(* collector goroutine reading it), the reconnect loop's position, and     *)
(* what the last step let the outside observe: the HTTP request served,    *)
(* its response and the frames written to the relay.                       *)
(*                                                                         *)
(* Every handler takes the daemon lock d.mu around each access of the      *)
(* shared fields, so a handler's access is one atomic step.                *)
(***************************************************************************)
EXTENDS Naturals, Integers, Sequences, FiniteSets, TLC

(***************************************************************************)
(* Sizes.  The code's capacities (1000 buffered records, 1000 records in   *)
(* a message channel, 50 records per /messages response) are scaled down;  *)
(* nothing below depends on their values.                                  *)
(***************************************************************************)
\* daemon.go:237 keeps at most 1000 records; the model keeps BufferCap.
BufferCap == 3
\* daemon.go:426 returns the last 50 matches; the model returns ReturnLimit.
ReturnLimit == 2
\* client_test.go:335 makes msgCh with capacity 1000; the model uses ChanCap.
ChanCap == 2
\* Sessions the daemon opens in one run (the first connect and reconnects).
MaxSessions == 2
\* Message frames the relay sends in one run of the buffer's specification.
MaxMsgs == 4
\* Message frames the relay sends in one run of the API's specification.
MaxApiMsgs == 1
\* Envelopes the read loop forwards while one synchronous operation waits.
MaxArrivals == 2

VARIABLES
    messages,      \* Daemon.messages: the ring buffer, oldest first
    joinedRooms,   \* Daemon.joinedRooms: the rooms to rejoin on reconnect
    client,        \* Daemon.client: Nil or the current session
    session,       \* per session: "none" (not opened), "live", "dead"
    msgCh,         \* per session: Client.msgCh
    nextId,        \* the next message frame's identity
    pc,            \* reconnectLoop: "wait" (in c.Wait) or "backoff"
    stopped,       \* os.Exit(0) was called
    returned,      \* the ids of the records /messages responses have carried
    ev,            \* "http", "connect" or "rejoin" right after such a step, else "idle"
    req,           \* the HTTP request the last step served, or NoReq
    resp,          \* the response to it, or NoResp
    reply,         \* what the relay answered to the last step's operation
    out,           \* the frames the last step wrote to relay sockets
    backoff,       \* reconnectLoop: the delay in seconds, 0 outside the retry loop
    rejoinRooms,   \* connectAndRejoin: rooms, the part still to rejoin
    joinedOn,      \* per session: the rooms the relay holds it joined to
    relay,         \* "accepting": the relay accepts every join; or "any"
    task,          \* per task of one Client: where it is in its code
    mu,            \* Client.mu: the task that holds it, or Free
    opMu,          \* Client.opMu: the task that holds it, or Free
    wire,          \* the frames written to the socket that are on their way
    handshakeWrote,\* the frames handshake wrote
    inbox,         \* the frames the relay sent that no one has read yet
    respCh,        \* Client.respCh
    call,          \* per caller: the operation it runs and its locals
    handshakeRead, \* the frames handshake read inline
    connected,     \* Connect: "pending", "live" (returned c) or "failed"
    wsOpen,        \* the socket was not closed by Connect
    reader,        \* the task that took the last frame from the socket
    rooms,         \* Client.rooms: the rooms the client holds itself joined to
    pow,           \* solvePoW: the challenge, the difficulty and the loop's nonce
    doc,           \* sign, canonicalJSON: two messages, their bytes and signatures
    file,          \* keystore: what is stored at path
    loaded         \* keystore: what the calls of LoadOrCreate(path) returned, in order

daemon == <<messages, joinedRooms, client>>
observed == <<ev, req, resp, reply, out>>
reconnect == <<backoff, rejoinRooms, joinedOn, relay>>
conn == <<task, mu, opMu, wire, handshakeWrote, inbox, respCh, call, handshakeRead,
          connected, wsOpen, reader, rooms>>
\* the package functions run on their own
lib == <<pow, doc, file, loaded>>
vars == <<messages, joinedRooms, client, session, msgCh, nextId, pc, stopped,
          returned, ev, req, resp, reply, out, backoff, rejoinRooms, joinedOn,
          relay, task, mu, opMu, wire, handshakeWrote, inbox, respCh, call, handshakeRead,
          connected, wsOpen, reader, rooms, pow, doc, file, loaded>>

Nil == 0
Sessions == 1..MaxSessions

(***************************************************************************)
(* Strings.  A room name is a sequence of characters so that               *)
(* strings.EqualFold can be computed character by character.               *)
(***************************************************************************)
Empty == <<>>
RoomA == <<"a">>
RoomUpperA == <<"A">>
RoomB == <<"b">>
RoomNames == {RoomA, RoomUpperA, RoomB}

\* unicode.SimpleFold over the model's alphabet: the lower-case letter.
FoldRune(c) ==
    CASE c = "A" -> "a"
      [] c = "B" -> "b"
      [] OTHER -> c

\* a comparison that tells cases apart, for contrast with EqualFold
EqualFoldCaseSensitive(s, t) == s = t

\* strings.EqualFold(s, t)
EqualFold(s, t) ==
    /\ Len(s) = Len(t)
    /\ \A i \in 1..Len(s) : FoldRune(s[i]) = FoldRune(t[i])

(***************************************************************************)
(* Incoming message records.  id stands for the record's from, text and    *)
(* timestamp: two frames the relay sent are two records.                   *)
(***************************************************************************)
IncomingMessage(room, id) == [room |-> room, id |-> id]

\* an insert that never evicts, for contrast with Insert
InsertNoEvict(buf, m) == Append(buf, m)

\* an insert that makes room by dropping the newest record, for contrast
\* with Insert
InsertEvictNewest(buf, m) ==
    IF Len(buf) >= BufferCap THEN Append(SubSeq(buf, 1, Len(buf) - 1), m)
    ELSE Append(buf, m)

\* collectMessages' critical section: evict the oldest at capacity, append.
Insert(buf, m) ==
    IF Len(buf) >= BufferCap THEN Append(Tail(buf), m) ELSE Append(buf, m)

\* handleMessages: whether record m matches the room filter
Matches(m, roomFilter) == roomFilter = Empty \/ EqualFold(m.room, roomFilter)

RECURSIVE DrainKeep(_, _)
\* a drain that leaves the matching records in the buffer, for contrast
\* with Drain
DrainKeep(buf, roomFilter) ==
    IF buf = <<>> THEN [msgs |-> <<>>, remaining |-> <<>>]
    ELSE LET rest == DrainKeep(Tail(buf), roomFilter)
             m == Head(buf)
         IN  IF Matches(m, roomFilter)
             THEN [msgs |-> <<m>> \o rest.msgs, remaining |-> <<m>> \o rest.remaining]
             ELSE [msgs |-> rest.msgs, remaining |-> <<m>> \o rest.remaining]

\* a drain that empties the buffer whatever the filter, for contrast with
\* Drain
DrainAll(buf, roomFilter) ==
    [msgs |-> SelectSeq(buf, LAMBDA m : Matches(m, roomFilter)), remaining |-> <<>>]

RECURSIVE Drain(_, _)
\* handleMessages' critical section: the loop over d.messages splits the
\* buffer into the matching records (msgs) and the others (remaining), both
\* in buffer order; remaining becomes the buffer.
Drain(buf, roomFilter) ==
    IF buf = <<>> THEN [msgs |-> <<>>, remaining |-> <<>>]
    ELSE LET rest == Drain(Tail(buf), roomFilter)
             m == Head(buf)
         IN  IF Matches(m, roomFilter)
             THEN [msgs |-> <<m>> \o rest.msgs, remaining |-> rest.remaining]
             ELSE [msgs |-> rest.msgs, remaining |-> <<m>> \o rest.remaining]

\* the first ReturnLimit records instead of the last, for contrast with Last
LastFirst(msgs) ==
    IF Len(msgs) > ReturnLimit THEN SubSeq(msgs, 1, ReturnLimit) ELSE msgs

\* handleMessages: "Return last 50"
Last(msgs) ==
    IF Len(msgs) > ReturnLimit
    THEN SubSeq(msgs, Len(msgs) - ReturnLimit + 1, Len(msgs))
    ELSE msgs

(***************************************************************************)
(* The relay client (the Client of internal/client that has Wait, which    *)
(* the daemon calls).  A synchronous operation writes its request and      *)
(* waits in recvTyped for an envelope the read loop forwards; arrivals is  *)
(* the sequence of envelopes forwarded before the 15 s deadline.           *)
(***************************************************************************)
Envelope(type, room, message, list) ==
    [type |-> type, room |-> room, message |-> message, rooms |-> list]
Joined(room) == Envelope("room.joined", room, "", <<>>)
ErrorFrame(message) == Envelope("error", Empty, message, <<>>)
PowChallenge == Envelope("pow.challenge", Empty, "", <<>>)
ListResult == Envelope("rooms.list.result", Empty, "", <<RoomA>>)
RelayError == "room not found"
Envelopes == {Joined(RoomA), Joined(RoomB), ErrorFrame(RelayError),
              PowChallenge, ListResult}
\* the envelopes an operation reads from respCh before it returns: a
\* handler takes the sequences its operation reads to the end (unread empty)
Arrivals == UNION {[1..n -> Envelopes] : n \in 0..MaxArrivals}
\* nothing is awaited after a failed first write
ArrivalsAfter(w1) == IF w1 THEN Arrivals ELSE {<<>>}
\* a second write happens only after a pow.challenge
SecondWrites(w1, arrivals) ==
    IF w1 /\ \E i \in DOMAIN arrivals : arrivals[i].type = "pow.challenge"
    THEN BOOLEAN ELSE {TRUE}

TimeoutError == "timeout waiting for relay response"
WriteError == "write: broken pipe"

Frame(sess, type, room) == [sess |-> sess, type |-> type, room |-> room]

\* a test of the type alone, for contrast with TypedMatch
TypedMatchTypeOnly(env, wantRoom, wantTypes) == env.type \in wantTypes

\* recvTyped's test of one envelope
TypedMatch(env, wantRoom, wantTypes) ==
    /\ env.type \in wantTypes
    /\ ~(wantRoom # Empty /\ env.type = "room.joined" /\ env.room # wantRoom)

\* recvTyped: the first forwarded envelope that matches, or the timeout
recvTyped(wantRoom, wantTypes, arrivals) ==
    LET hits == {i \in 1..Len(arrivals) : TypedMatch(arrivals[i], wantRoom, wantTypes)}
    IN  IF hits = {}
        THEN [err |-> TimeoutError, env |-> ErrorFrame(""), rest |-> <<>>]
        ELSE LET i == CHOOSE k \in hits : \A j \in hits : k <= j
             IN  [err |-> "", env |-> arrivals[i],
                  rest |-> SubSeq(arrivals, i + 1, Len(arrivals))]

\* what the operation got from recvTyped last: nothing awaited, the
\* timeout, or an envelope
NoReply == [kind |-> "none", env |-> ErrorFrame("")]
TimedOut == [kind |-> "timeout", env |-> ErrorFrame("")]
Got(env) == [kind |-> "envelope", env |-> env]

\* what a client operation returns: err = "" is Go's nil error; wrote and
\* got record the frames it wrote and the reply it took, unread the
\* envelopes forwarded after that reply
Failed(err, wrote, got, unread) ==
    [err |-> err, val |-> <<>>, wrote |-> wrote, got |-> got, unread |-> unread]
Returned(val, wrote, got, unread) ==
    [err |-> "", val |-> val, wrote |-> wrote, got |-> got, unread |-> unread]
RoomInfo(env) == <<"RoomInfo", env.room>>

\* the tail of CreateRoom and JoinRoom: an error envelope is the error,
\* anything else is read as room.joined
JoinedOrError(r, wrote) ==
    IF r.env.type = "error" THEN Failed(r.env.message, wrote, Got(r.env), r.rest)
    ELSE Returned(RoomInfo(r.env), wrote, Got(r.env), r.rest)

\* Client.CreateRoom; w1, w2: whether the first and second write succeed
CreateRoom(c, name, w1, w2, arrivals) ==
    LET f == Frame(c, "room.create", name)
        r1 == recvTyped(name, {"pow.challenge", "room.joined", "error"}, arrivals)
        r2 == recvTyped(name, {"room.joined", "error"}, r1.rest)
    IN  IF ~w1 THEN Failed(WriteError, <<>>, NoReply, arrivals)
        ELSE IF r1.err # "" THEN Failed(r1.err, <<f>>, TimedOut, r1.rest)
        ELSE IF r1.env.type = "pow.challenge"
             THEN IF ~w2 THEN Failed(WriteError, <<f>>, Got(r1.env), r1.rest)
                  ELSE IF r2.err # "" THEN Failed(r2.err, <<f, f>>, TimedOut, r2.rest)
                  ELSE JoinedOrError(r2, <<f, f>>)
        ELSE JoinedOrError(r1, <<f>>)

\* Client.JoinRoom
JoinRoom(c, name, w1, arrivals) ==
    LET f == Frame(c, "room.join", name)
        r1 == recvTyped(name, {"room.joined", "error"}, arrivals)
    IN  IF ~w1 THEN Failed(WriteError, <<>>, NoReply, arrivals)
        ELSE IF r1.err # "" THEN Failed(r1.err, <<f>>, TimedOut, r1.rest)
        ELSE JoinedOrError(r1, <<f>>)

\* Client.LeaveRoom
LeaveRoom(c, name, w1) ==
    IF w1 THEN Returned(<<>>, <<Frame(c, "room.leave", name)>>, NoReply, <<>>)
    ELSE Failed(WriteError, <<>>, NoReply, <<>>)

\* Client.SendMessage
SendMessage(c, room, w1) ==
    IF w1 THEN Returned(<<>>, <<Frame(c, "message", room)>>, NoReply, <<>>)
    ELSE Failed(WriteError, <<>>, NoReply, <<>>)

\* Client.ListRooms: the envelope's rooms, whatever its type
ListRooms(c, w1, arrivals) ==
    LET f == Frame(c, "rooms.list", Empty)
        r1 == recvTyped(Empty, {"rooms.list.result", "error"}, arrivals)
    IN  IF ~w1 THEN Failed(WriteError, <<>>, NoReply, arrivals)
        ELSE IF r1.err # "" THEN Failed(r1.err, <<f>>, TimedOut, r1.rest)
        ELSE Returned(r1.env.rooms, <<f>>, Got(r1.env), r1.rest)

(***************************************************************************)
(* HTTP requests and responses of the local API.                           *)
(***************************************************************************)
apiToken == "tok"
\* the header absent (Header.Get gives ""), right, and wrong
AuthHeaders == {"", "Bearer " \o apiToken, "Bearer wrong-token"}
Methods == {"GET", "POST"}
BodyRooms == {RoomA, RoomB, Empty}
QueryRooms == RoomNames \cup {Empty}

\* json: whether the body parses as JSON; room: the body's "room" field, or
\* the room query parameter of /messages and /history ("" when absent).
Request(path, method, auth, json, room) ==
    [path |-> path, method |-> method, auth |-> auth, json |-> json, room |-> room]
Requests ==
    {Request(p, m, a, TRUE, Empty) :
        p \in {"/status", "/rooms", "/stop"}, m \in Methods, a \in AuthHeaders}
    \cup
    UNION {{Request(p, m, a, TRUE, n), Request(p, m, a, FALSE, Empty)} :
        p \in {"/rooms/create", "/rooms/join", "/rooms/leave", "/send"},
        m \in Methods, a \in AuthHeaders, n \in BodyRooms}
    \cup
    UNION {{Request(p, m, a, TRUE, n)} :
        p \in {"/messages", "/history"}, m \in Methods, a \in AuthHeaders,
        n \in QueryRooms}
NoReq == Request("", "", "", TRUE, Empty)

Text(t) == [text |-> t, data |-> <<>>]
Json(d) == [text |-> "", data |-> d]
Response(handler, status, body) ==
    [handler |-> handler, status |-> status, body |-> body]
NoResp == Response("none", 0, Text(""))

\* json.NewDecoder(r.Body).Decode(&req): on an error req keeps its zero value
Decode(r) == [err |-> ~r.json, room |-> IF r.json THEN r.room ELSE Empty]

\* what a handler leaves alone besides the Daemon's fields
process == <<session, msgCh, nextId, pc, stopped>>

\* the ids of the records of a sequence
Ids(msgs) == {msgs[i].id : i \in 1..Len(msgs)}

\* the response is written and the step's frames are on the wire
Respond(r, handler, status, body, frames, got) ==
    /\ ev' = "http"
    /\ req' = r
    /\ resp' = Response(handler, status, body)
    /\ reply' = got
    /\ out' = frames
    /\ UNCHANGED <<backoff, rejoinRooms, relay, conn, lib>>

\* a response that ends the handler before it touched anything
Reject(r, handler, status, text) ==
    /\ Respond(r, handler, status, Text(text), <<>>, NoReply)
    /\ UNCHANGED <<daemon, process, returned>>

\* a test that accepts any header that is present, for contrast with
\* Authorized
AuthorizedAnyBearer(auth) == auth # ""

\* requireAuth's test of the Authorization header
Authorized(auth) == auth = "Bearer " \o apiToken

handleStatus(r) ==
    /\ Respond(r, "handleStatus", 200, Json(<<client # Nil>>), <<>>, NoReply)
    /\ UNCHANGED <<daemon, process, returned>>

handleRooms(r) ==
    IF client = Nil THEN Reject(r, "handleRooms", 503, "not connected")
    ELSE \E w1 \in BOOLEAN : \E arrivals \in ArrivalsAfter(w1) :
            LET res == ListRooms(client, w1, arrivals)
            IN  /\ res.unread = <<>>
                /\ IF res.err # ""
                   THEN Respond(r, "handleRooms", 500, Text(res.err), res.wrote, res.got)
                   ELSE Respond(r, "handleRooms", 200, Json(res.val), res.wrote, res.got)
                /\ UNCHANGED <<daemon, process, returned>>

handleCreateRoom(r) ==
    IF r.method # "POST" THEN Reject(r, "handleCreateRoom", 405, "POST only")
    ELSE IF Decode(r).err THEN Reject(r, "handleCreateRoom", 400, "bad request")
    ELSE IF client = Nil THEN Reject(r, "handleCreateRoom", 503, "not connected")
    ELSE \E w1 \in BOOLEAN : \E arrivals \in ArrivalsAfter(w1) :
         \E w2 \in SecondWrites(w1, arrivals) :
            LET res == CreateRoom(client, Decode(r).room, w1, w2, arrivals)
            IN  /\ res.unread = <<>>
                /\ IF res.err # ""
                   THEN /\ Respond(r, "handleCreateRoom", 400, Text(res.err), res.wrote, res.got)
                        /\ UNCHANGED <<daemon, process, returned>>
                   ELSE /\ joinedRooms' = joinedRooms \cup {Decode(r).room}
                        /\ Respond(r, "handleCreateRoom", 200, Json(res.val), res.wrote, res.got)
                        /\ UNCHANGED <<messages, client, process, returned>>

handleJoinRoom(r) ==
    IF r.method # "POST" THEN Reject(r, "handleJoinRoom", 405, "POST only")
    ELSE IF Decode(r).err THEN Reject(r, "handleJoinRoom", 400, "bad request")
    ELSE IF client = Nil THEN Reject(r, "handleJoinRoom", 503, "not connected")
    ELSE \E w1 \in BOOLEAN : \E arrivals \in ArrivalsAfter(w1) :
            LET res == JoinRoom(client, Decode(r).room, w1, arrivals)
            IN  /\ res.unread = <<>>
                /\ IF res.err # ""
                   THEN /\ Respond(r, "handleJoinRoom", 400, Text(res.err), res.wrote, res.got)
                        /\ UNCHANGED <<daemon, process, returned>>
                   ELSE /\ joinedRooms' = joinedRooms \cup {Decode(r).room}
                        /\ Respond(r, "handleJoinRoom", 200, Json(res.val), res.wrote, res.got)
                        /\ UNCHANGED <<messages, client, process, returned>>

\* a handler that drops the room from the intent set before it looks at
\* the client, for contrast with handleLeaveRoom
handleLeaveRoomDeleteFirst(r) ==
    IF r.method # "POST" THEN Reject(r, "handleLeaveRoom", 405, "POST only")
    ELSE /\ joinedRooms' = joinedRooms \ {Decode(r).room}
         /\ \E w1 \in BOOLEAN :
               LET res == LeaveRoom(client, Decode(r).room, w1)
               IN  IF client = Nil
                   THEN Respond(r, "handleLeaveRoom", 503, Text("not connected"), <<>>, NoReply)
                   ELSE IF res.err # ""
                   THEN Respond(r, "handleLeaveRoom", 500, Text(res.err), res.wrote, res.got)
                   ELSE Respond(r, "handleLeaveRoom", 200, Json(<<"ok">>), res.wrote, res.got)
         /\ UNCHANGED <<messages, client, process, returned>>

\* the decode error is not looked at: a body that does not parse leaves
\* req.Room = ""
handleLeaveRoom(r) ==
    IF r.method # "POST" THEN Reject(r, "handleLeaveRoom", 405, "POST only")
    ELSE IF client = Nil THEN Reject(r, "handleLeaveRoom", 503, "not connected")
    ELSE \E w1 \in BOOLEAN :
            LET res == LeaveRoom(client, Decode(r).room, w1)
            IN  IF res.err # ""
                THEN /\ Respond(r, "handleLeaveRoom", 500, Text(res.err), res.wrote, res.got)
                     /\ UNCHANGED <<daemon, process, returned>>
                ELSE /\ joinedRooms' = joinedRooms \ {Decode(r).room}
                     /\ Respond(r, "handleLeaveRoom", 200, Json(<<"ok">>), res.wrote, res.got)
                     /\ UNCHANGED <<messages, client, process, returned>>

handleSend(r) ==
    IF r.method # "POST" THEN Reject(r, "handleSend", 405, "POST only")
    ELSE IF Decode(r).err THEN Reject(r, "handleSend", 400, "bad request")
    ELSE IF client = Nil THEN Reject(r, "handleSend", 503, "not connected")
    ELSE \E w1 \in BOOLEAN :
            LET res == SendMessage(client, Decode(r).room, w1)
            IN  /\ IF res.err # ""
                   THEN Respond(r, "handleSend", 500, Text(res.err), res.wrote, res.got)
                   ELSE Respond(r, "handleSend", 200, Json(<<"ok">>), res.wrote, res.got)
                /\ UNCHANGED <<daemon, process, returned>>

handleMessages(r) ==
    LET split == Drain(messages, r.room)
    IN  /\ messages' = split.remaining
        /\ Respond(r, "handleMessages", 200, Json(Last(split.msgs)), <<>>, NoReply)
        /\ returned' = returned \cup Ids(Last(split.msgs))
        /\ UNCHANGED <<joinedRooms, client, process>>

\* the relay's REST API answers /history; the daemon's state is not read
HistoryOutcomes == {<<502, "relay unreachable">>, <<404, "relay error">>,
                    <<500, "failed to decode relay response">>, <<200, "transcript">>}
handleHistory(r) ==
    IF r.room = Empty THEN Reject(r, "handleHistory", 400, "room parameter required")
    ELSE \E o \in HistoryOutcomes : Reject(r, "handleHistory", o[1], o[2])

\* Client.Close: the socket is closed, the read loop's read fails
Close(c) == [session EXCEPT ![c] = "dead"]

\* no test of the method; the goroutine closes the client and exits
handleStop(r) ==
    /\ Respond(r, "handleStop", 200, Json(<<"stopping">>), <<>>, NoReply)
    /\ session' = IF client # Nil THEN Close(client) ELSE session
    /\ stopped' = TRUE
    /\ UNCHANGED <<daemon, msgCh, nextId, pc, returned>>

\* the handler Start registers for a path
HandlerFor(path) ==
    CASE path = "/status" -> "handleStatus"
      [] path = "/rooms" -> "handleRooms"
      [] path = "/rooms/create" -> "handleCreateRoom"
      [] path = "/rooms/join" -> "handleJoinRoom"
      [] path = "/rooms/leave" -> "handleLeaveRoom"
      [] path = "/send" -> "handleSend"
      [] path = "/messages" -> "handleMessages"
      [] path = "/history" -> "handleHistory"
      [] path = "/stop" -> "handleStop"

\* next(w, r): the call of the handler function requireAuth was given
Call(next, r) ==
    CASE next = "handleStatus" -> handleStatus(r)
      [] next = "handleRooms" -> handleRooms(r)
      [] next = "handleCreateRoom" -> handleCreateRoom(r)
      [] next = "handleJoinRoom" -> handleJoinRoom(r)
      [] next = "handleLeaveRoom" -> handleLeaveRoom(r)
      [] next = "handleSend" -> handleSend(r)
      [] next = "handleMessages" -> handleMessages(r)
      [] next = "handleHistory" -> handleHistory(r)
      [] next = "handleStop" -> handleStop(r)

\* requireAuth: next runs only behind the bearer token
requireAuth(r, next) ==
    IF ~Authorized(r.auth) THEN Reject(r, "none", 401, "unauthorized")
    ELSE Call(next, r)

\* the process runs and the last step's observation was taken
Running == ~stopped /\ ev = "idle"

\* the route table of Start
ServeStatus ==
    /\ Running
    /\ \E r \in Requests : r.path = "/status" /\ requireAuth(r, "handleStatus")
    /\ UNCHANGED joinedOn
ServeRooms ==
    /\ Running
    /\ \E r \in Requests : r.path = "/rooms" /\ requireAuth(r, "handleRooms")
    /\ UNCHANGED joinedOn
ServeCreateRoom ==
    /\ Running
    /\ \E r \in Requests : r.path = "/rooms/create" /\ requireAuth(r, "handleCreateRoom")
    /\ UNCHANGED joinedOn
ServeJoinRoom ==
    /\ Running
    /\ \E r \in Requests : r.path = "/rooms/join" /\ requireAuth(r, "handleJoinRoom")
    /\ UNCHANGED joinedOn
ServeLeaveRoom ==
    /\ Running
    /\ \E r \in Requests : r.path = "/rooms/leave" /\ requireAuth(r, "handleLeaveRoom")
    /\ UNCHANGED joinedOn
ServeSend ==
    /\ Running
    /\ \E r \in Requests : r.path = "/send" /\ requireAuth(r, "handleSend")
    /\ UNCHANGED joinedOn
ServeMessages ==
    /\ Running
    /\ \E r \in Requests : r.path = "/messages" /\ requireAuth(r, "handleMessages")
    /\ UNCHANGED joinedOn
ServeHistory ==
    /\ Running
    /\ \E r \in Requests : r.path = "/history" /\ requireAuth(r, "handleHistory")
    /\ UNCHANGED joinedOn
ServeStop ==
    /\ Running
    /\ \E r \in Requests : r.path = "/stop" /\ requireAuth(r, "handleStop")
    /\ UNCHANGED joinedOn

\* /messages as the CLI calls it: GET with the token of api.token
PollMessages ==
    /\ Running
    /\ \E r \in Requests :
          /\ r.path = "/messages" /\ r.method = "GET" /\ Authorized(r.auth)
          /\ requireAuth(r, "handleMessages")
    /\ UNCHANGED joinedOn

(***************************************************************************)
(* The sessions: read loop, collector, reconnect loop.                     *)
(***************************************************************************)
\* readLoop, case "message": the frame's record goes into msgCh; the send
\* blocks while the channel is full.  limit bounds the frames of one run.
readLoopMessage(s, limit) ==
    /\ Running
    /\ session[s] = "live"
    /\ nextId <= limit
    /\ Len(msgCh[s]) < ChanCap
    /\ \E room \in RoomNames :
          msgCh' = [msgCh EXCEPT ![s] = Append(@, IncomingMessage(room, nextId))]
    /\ nextId' = nextId + 1
    /\ UNCHANGED <<daemon, session, pc, stopped, returned, observed, reconnect>>
    /\ UNCHANGED <<conn, lib>>

\* readLoop: a read error ends the loop and the session
readLoopExit(s) ==
    /\ Running
    /\ session[s] = "live"
    /\ session' = [session EXCEPT ![s] = "dead"]
    /\ UNCHANGED <<daemon, msgCh, nextId, pc, stopped, returned, observed, reconnect>>
    /\ UNCHANGED <<conn, lib>>

\* collectMessages(c): one iteration of the range over c.Messages(); the
\* channel is never closed, so the collector of a dead session goes on
collectMessages(s) ==
    /\ Running
    /\ session[s] # "none"
    /\ msgCh[s] # <<>>
    /\ messages' = Insert(messages, Head(msgCh[s]))
    /\ msgCh' = [msgCh EXCEPT ![s] = Tail(@)]
    /\ UNCHANGED <<joinedRooms, client, session, nextId, pc, stopped, returned, observed,
                   reconnect>>
    /\ UNCHANGED <<conn, lib>>

\* the reconnect loop's first delay and the limit of its doubling, seconds
InitialBackoff == 2
MaxBackoff == 60

\* a loop that does not wait for the read loop's exit, for contrast with
\* reconnectClear
reconnectClearEarly ==
    /\ Running
    /\ pc = "wait"
    /\ client' = Nil
    /\ pc' = "backoff"
    /\ backoff' = InitialBackoff
    /\ UNCHANGED <<messages, joinedRooms, session, msgCh, nextId, stopped, returned, observed,
                   rejoinRooms, joinedOn, relay>>
    /\ UNCHANGED <<conn, lib>>

\* a loop that forgets the rooms with the session, for contrast with
\* reconnectClear
reconnectClearForget ==
    /\ Running
    /\ pc = "wait"
    /\ client = Nil \/ session[client] = "dead"
    /\ client' = Nil
    /\ joinedRooms' = {}
    /\ pc' = "backoff"
    /\ backoff' = InitialBackoff
    /\ UNCHANGED <<messages, session, msgCh, nextId, stopped, returned, observed,
                   rejoinRooms, joinedOn, relay>>
    /\ UNCHANGED <<conn, lib>>

\* reconnectLoop: c.Wait() returned (or c was nil); d.client = nil; the
\* retry loop is entered with backoff := 2 s
reconnectClear ==
    /\ Running
    /\ pc = "wait"
    /\ client = Nil \/ session[client] = "dead"
    /\ client' = Nil
    /\ pc' = "backoff"
    /\ backoff' = InitialBackoff
    /\ UNCHANGED <<messages, joinedRooms, session, msgCh, nextId, stopped, returned, observed,
                   rejoinRooms, joinedOn, relay>>
    /\ UNCHANGED <<conn, lib>>

\* the orders in which a range over the map can visit the rooms
Orders(set) ==
    {o \in [1..Cardinality(set) -> set] : \A i, j \in DOMAIN o : i # j => o[i] # o[j]}

\* reconnectLoop: a connectAndRejoin that succeeds, taken as one step:
\* client.Connect gives a new session, d.client is set, one room.join is
\* written per room of joinedRooms, the collector is started and the retry
\* loop is left.  (The pass in steps, with its replies and the attempts that
\* fail, is connectSnapshot, rejoinRoom, rejoinDone and connectFail below.)
connectAndRejoin ==
    /\ Running
    /\ pc = "backoff"
    /\ \E s \in Sessions :
          /\ session[s] = "none"
          /\ \A t \in Sessions : session[t] = "none" => s <= t
          /\ session' = [session EXCEPT ![s] = "live"]
          /\ client' = s
          /\ \E o \in Orders(joinedRooms) :
                out' = [i \in DOMAIN o |-> Frame(s, "room.join", o[i])]
    /\ pc' = "wait"
    /\ backoff' = 0
    /\ ev' = "connect"
    /\ UNCHANGED <<messages, joinedRooms, msgCh, nextId, stopped, returned, req, resp, reply,
                   rejoinRooms, joinedOn, relay>>
    /\ UNCHANGED <<conn, lib>>

\* the observation of the last step (the response, the frames) is taken
Observed ==
    /\ ~stopped
    /\ ev # "idle"
    /\ ev' = "idle"
    /\ req' = NoReq
    /\ resp' = NoResp
    /\ reply' = NoReply
    /\ out' = <<>>
    /\ UNCHANGED <<daemon, process, returned, reconnect>>
    /\ UNCHANGED <<conn, lib>>

(***************************************************************************)
(* One Client in steps: Connect with its handshake, the read loop, the     *)
(* ping loop and two callers of its operations, against a relay that       *)
(* deals with the frames of the wire in order.                             *)
(***************************************************************************)
MaxCalls == 2
RespCap == 4

Free == "free"
Callers == {"caller1", "caller2"}
Tasks == {"Connect", "readLoop", "pingLoop", "Close", "Wait", "collectMessages",
          "handler", "handleStop"} \cup Callers
SyncOps == {"CreateRoom", "JoinRoom", "ListRooms"}
Ops == SyncOps \cup {"SendMessage", "LeaveRoom"}
\* everything but the client
served == <<daemon, process, returned, observed, reconnect, lib>>

\* sha256 over challenge and proof, cut down to HashBits bits
HashBits == 4
Hash(challenge, proof) == (5 * challenge + 3 * proof + 1) % (2 ^ HashBits)

\* a test of the lowest bits of the hash, for contrast with verifyPoW
verifyPoWLowBits(challenge, proof, difficulty) ==
    \A i \in 0..(difficulty - 1) : (Hash(challenge, proof) \div (2 ^ i)) % 2 = 0

\* verifyPoW: the loop over i < difficulty comes to an i that is no bit of
\* the hash, hash[byteIdx] with byteIdx beyond the last byte: every bit the
\* hash has was zero and difficulty asks for more
indexOutOfRange(challenge, proof, difficulty) ==
    difficulty > HashBits /\ Hash(challenge, proof) = 0

\* verifyPoW: the first difficulty bits of the hash are zero (no value
\* where indexOutOfRange holds: the loop does not come to a return)
verifyPoW(challenge, proof, difficulty) ==
    \A i \in 0..(difficulty - 1) :
        i < HashBits /\ (Hash(challenge, proof) \div (2 ^ (HashBits - 1 - i))) % 2 = 0

\* solvePoW: the first nonce, counting from 0, that verifies
RECURSIVE solveFrom(_, _, _)
solveFrom(challenge, difficulty, nonce) ==
    IF verifyPoW(challenge, nonce, difficulty) THEN nonce
    ELSE solveFrom(challenge, difficulty, nonce + 1)
solvePoW(challenge, difficulty) == solveFrom(challenge, difficulty, 0)

\* a frame the client wrote: by is the task, id the call (0: none)
Outbound(by, id, type, room, challenge, proof) ==
    [by |-> by, call |-> id, type |-> type, room |-> room,
     challenge |-> challenge, proof |-> proof]
\* a frame the relay sent
Inbound(type, room, challenge, difficulty) ==
    [type |-> type, room |-> room, challenge |-> challenge, difficulty |-> difficulty]
Plain(type, room) == Inbound(type, room, 0, 0)
MaxChallenge == 3
MaxDifficulty == 2
Challenges == 1..MaxChallenge
Difficulties == 0..MaxDifficulty

\* what the relay may send on a frame
Replies(f) ==
    CASE f.type = "hello" ->
            {Inbound("pow.challenge", Empty, 1, 1), Plain("error", Empty),
             Plain("welcome", Empty)}
      [] f.type = "hello.pow" ->
            {Plain("welcome", Empty), Plain("error", Empty), Plain("room.joined", RoomB)}
      [] f.type = "room.create" ->
            {Inbound("pow.challenge", Empty, 1, 1),
             Inbound("pow.challenge", Empty, MaxChallenge, MaxDifficulty),
             Plain("room.joined", f.room), Plain("room.joined", RoomB),
             Plain("error", Empty)}
      [] f.type = "room.join" ->
            {Plain("room.joined", f.room), Plain("room.joined", RoomB),
             Plain("error", Empty)}
      [] f.type = "rooms.list" ->
            {Plain("rooms.list.result", Empty), Plain("error", Empty)}
      [] f.type = "ping" -> {Plain("pong", Empty)}
      [] OTHER -> {}

\* the relay takes the next frame from the wire and sends one of its
\* replies to it, if it has any
relayAnswer ==
    /\ wsOpen
    /\ task["readLoop"] # "exited"
    /\ wire # <<>>
    /\ wire' = Tail(wire)
    /\ IF Replies(Head(wire)) = {} THEN inbox' = inbox
       ELSE \E e \in Replies(Head(wire)) : inbox' = Append(inbox, e)
    /\ UNCHANGED <<served, rooms, task, mu, opMu, handshakeWrote, respCh, call, handshakeRead,
                   connected, wsOpen, reader>>

\* the relay takes the next frame from the wire; it completes the handshake
\* and answers room.join with the room, or stays silent
relayWelcome ==
    /\ wsOpen
    /\ task["readLoop"] # "exited"
    /\ wire # <<>>
    /\ wire' = Tail(wire)
    /\ \/ inbox' = inbox
       \/ /\ Head(wire).type = "hello"
          /\ inbox' = Append(inbox, Inbound("pow.challenge", Empty, 1, 1))
       \/ /\ Head(wire).type = "hello.pow"
          /\ inbox' = Append(inbox, Plain("welcome", Empty))
       \/ /\ Head(wire).type = "room.join"
          /\ inbox' = Append(inbox, Plain("room.joined", Head(wire).room))
    /\ UNCHANGED <<served, rooms, task, mu, opMu, handshakeWrote, respCh, call, handshakeRead,
                   connected, wsOpen, reader>>

\* the relay answers hello with a challenge of any difficulty
relayChallenge ==
    /\ wsOpen
    /\ wire # <<>>
    /\ Head(wire).type = "hello"
    /\ wire' = Tail(wire)
    /\ \E c \in Challenges, d \in Difficulties :
          inbox' = Append(inbox, Inbound("pow.challenge", Empty, c, d))
    /\ UNCHANGED <<served, rooms, task, mu, opMu, handshakeWrote, respCh, call, handshakeRead,
                   connected, wsOpen, reader>>

\* a writeJSON that does not take the lock, for contrast with writeJSON
writeJSONUnlocked(t, next) ==
    /\ task' = [task EXCEPT ![t] = next]
    /\ mu' = mu

\* writeJSON: c.mu.Lock(); task t is inside c.ws.WriteJSON at next
writeJSON(t, next) ==
    /\ mu = Free
    /\ mu' = t
    /\ task' = [task EXCEPT ![t] = next]

\* the places of the code that are inside c.ws.WriteJSON
InWrite(t) == task[t] \in {"hello.w", "pow.w", "write.w", "ping.w"}

\* a writeJSON without the deferred unlock, for contrast with written
writtenLocked(t, frame, ok) ==
    /\ ok => wsOpen
    /\ mu' = mu
    /\ wire' = IF ok THEN Append(wire, frame) ELSE wire

\* c.ws.WriteJSON returns and the deferred c.mu.Unlock() runs; ok: the frame
\* went out, which it does on an open socket only
written(t, frame, ok) ==
    /\ ok => wsOpen
    /\ mu' = IF mu = t THEN Free ELSE mu
    /\ wire' = IF ok THEN Append(wire, frame) ELSE wire

\* Connect: handshake failed; ws.Close(); return nil, err
connectFailed ==
    /\ connected' = "failed"
    /\ wsOpen' = FALSE
    /\ task' = [task EXCEPT !["Connect"] = "returned"]

\* handshake: writeJSON(hello) begins
handshakeHello ==
    /\ task["Connect"] = "hello"
    /\ writeJSON("Connect", "hello.w")
    /\ UNCHANGED <<served, rooms, opMu, wire, handshakeWrote, inbox, respCh, call, handshakeRead,
                   connected, wsOpen, reader>>

\* handshake: writeJSON(hello) returns
handshakeHelloWritten ==
    /\ task["Connect"] = "hello.w"
    /\ \E ok \in BOOLEAN :
          /\ written("Connect", Outbound("Connect", 0, "hello", Empty, 0, 0), ok)
          /\ handshakeWrote' = IF ok THEN <<Outbound("Connect", 0, "hello", Empty, 0, 0)>>
                                ELSE handshakeWrote
          /\ IF ok
             THEN /\ task' = [task EXCEPT !["Connect"] = "readChallenge"]
                  /\ UNCHANGED <<connected, wsOpen>>
             ELSE connectFailed
    /\ UNCHANGED <<served, rooms, opMu, inbox, respCh, call, handshakeRead, reader>>

\* handshake: c.ws.ReadJSON(&challenge) and the tests of its type
handshakeChallenge ==
    /\ task["Connect"] = "readChallenge"
    /\ inbox # <<>>
    /\ inbox' = Tail(inbox)
    /\ handshakeRead' = Append(handshakeRead, Head(inbox))
    /\ reader' = "Connect"
    /\ IF Head(inbox).type = "pow.challenge"
       THEN /\ task' = [task EXCEPT !["Connect"] = "pow"]
            /\ UNCHANGED <<connected, wsOpen>>
       ELSE connectFailed
    /\ UNCHANGED <<served, rooms, mu, opMu, wire, handshakeWrote, respCh, call>>

\* handshake: solvePoW; writeJSON(hello.pow) begins
handshakePow ==
    /\ task["Connect"] = "pow"
    /\ writeJSON("Connect", "pow.w")
    /\ UNCHANGED <<served, rooms, opMu, wire, handshakeWrote, inbox, respCh, call, handshakeRead,
                   connected, wsOpen, reader>>

\* handshake: writeJSON(hello.pow) returns
handshakePowWritten ==
    /\ task["Connect"] = "pow.w"
    /\ \E ok \in BOOLEAN :
          LET ch == handshakeRead[1]
              proof == solvePoW(ch.challenge, ch.difficulty)
              f == Outbound("Connect", 0, "hello.pow", Empty, ch.challenge, proof)
          IN  /\ written("Connect", f, ok)
              /\ handshakeWrote' = IF ok THEN Append(handshakeWrote, f) ELSE handshakeWrote
              /\ IF ok
                 THEN /\ task' = [task EXCEPT !["Connect"] = "readWelcome"]
                      /\ UNCHANGED <<connected, wsOpen>>
                 ELSE connectFailed
    /\ UNCHANGED <<served, rooms, opMu, inbox, respCh, call, handshakeRead, reader>>

\* a test of the second frame that lets every frame but an error pass, for
\* contrast with isWelcome
isNotError(f) == f.type # "error"

\* handshake: the tests of the second frame's type
isWelcome(f) == f.type # "error" /\ f.type = "welcome"

\* handshake: c.ws.ReadJSON(&welcome) and the tests of its type; on success
\* Connect starts the read loop and the ping loop and returns c
handshakeWelcome ==
    /\ task["Connect"] = "readWelcome"
    /\ inbox # <<>>
    /\ inbox' = Tail(inbox)
    /\ handshakeRead' = Append(handshakeRead, Head(inbox))
    /\ reader' = "Connect"
    /\ IF isWelcome(Head(inbox))
       THEN /\ task' = [task EXCEPT !["Connect"] = "returned", !["readLoop"] = "read",
                                    !["pingLoop"] = "tick"]
            /\ connected' = "live"
            /\ UNCHANGED wsOpen
       ELSE connectFailed
    /\ UNCHANGED <<served, rooms, mu, opMu, wire, handshakeWrote, respCh, call>>

\* handshake: c.ws.ReadJSON returns an error at either read
handshakeReadError ==
    /\ task["Connect"] \in {"readChallenge", "readWelcome"}
    /\ connectFailed
    /\ UNCHANGED <<served, rooms, mu, opMu, wire, handshakeWrote, inbox, respCh, call, handshakeRead,
                   reader>>

\* a read loop that discards pong only, for contrast with Discarded
DiscardedPongOnly(type) == type = "pong"

\* readLoop: the types of case "pong" and case "room.member_joined",
\* "room.member_left"
Discarded(type) == type \in {"pong", "room.member_joined", "room.member_left"}

\* readLoop: c.ws.ReadMessage() gave a frame; pong and the member events
\* are dropped, the rest but a message goes to respCh unless respCh is full
readLoopForward ==
    /\ task["readLoop"] = "read"
    /\ inbox # <<>>
    /\ Head(inbox).type # "message"
    /\ inbox' = Tail(inbox)
    /\ reader' = "readLoop"
    /\ respCh' = IF Discarded(Head(inbox).type) \/ Len(respCh) >= RespCap
                 THEN respCh
                 ELSE Append(respCh, Head(inbox))
    /\ UNCHANGED <<served, rooms, task, mu, opMu, wire, handshakeWrote, call, handshakeRead,
                   connected, wsOpen>>

\* readLoop: c.ws.ReadMessage() gave an error; the loop returns
readLoopReturn ==
    /\ task["readLoop"] = "read"
    /\ task' = [task EXCEPT !["readLoop"] = "exited"]
    /\ UNCHANGED <<served, rooms, mu, opMu, wire, handshakeWrote, inbox, respCh, call, handshakeRead,
                   connected, wsOpen, reader>>


\* no ping or pong is on its way
PingsDone ==
    /\ \A i \in DOMAIN wire : wire[i].type # "ping"
    /\ \A i \in DOMAIN inbox : inbox[i].type # "pong"

\* pingLoop: a tick, 25 s after the last: c.closed is read under c.mu and
\* is false, then writeJSON(ping) begins
pingWrite ==
    /\ task["pingLoop"] = "tick"
    /\ task["Close"] \notin {"closed", "returned"}
    /\ PingsDone
    /\ writeJSON("pingLoop", "ping.w")
    /\ UNCHANGED <<served, rooms, opMu, wire, handshakeWrote, inbox, respCh, call, handshakeRead,
                   connected, wsOpen, reader>>

\* pingLoop: writeJSON(ping) returns; its error is dropped
pingWritten ==
    /\ task["pingLoop"] = "ping.w"
    /\ \E ok \in BOOLEAN :
          written("pingLoop", Outbound("pingLoop", 0, "ping", Empty, 0, 0), ok)
    /\ task' = [task EXCEPT !["pingLoop"] = "tick"]
    /\ UNCHANGED <<served, rooms, opMu, handshakeWrote, inbox, respCh, call, handshakeRead,
                   connected, wsOpen, reader>>

\* the locals of a caller: the operation, its room, the call's number, the
\* request it is at (CreateRoom has two), recvTyped's queued, CreateRoom's
\* ch; after the return, the number and the result
Result(kind, room) == [kind |-> kind, room |-> room]
NoResult == Result("none", Empty)
NoChallenge == Inbound("none", Empty, 0, 0)
Invocation(op, name, id) ==
    [op |-> op, name |-> name, id |-> id, phase |-> 1, queued |-> <<>>,
     ch |-> NoChallenge, result |-> NoResult]
NoCall == Invocation("none", Empty, 0)
Return(c, result) == [Invocation("none", Empty, c.id) EXCEPT !.result = result]
\* the rooms the callers name
CallNames(op) ==
    IF op \in {"CreateRoom", "JoinRoom"} THEN {RoomA, Empty}
    ELSE IF op = "ListRooms" THEN {Empty}
    ELSE {RoomA}
\* the calls made so far
Calls == {call[t].id : t \in Callers}
LastCall == CHOOSE n \in Calls : \A k \in Calls : k <= n

\* the type of the request frame of an operation
RequestType(op) ==
    CASE op = "CreateRoom" -> "room.create"
      [] op = "JoinRoom" -> "room.join"
      [] op = "ListRooms" -> "rooms.list"
      [] op = "SendMessage" -> "message"
      [] op = "LeaveRoom" -> "room.leave"

\* a CreateRoom whose second request carries no pow, for contrast with
\* RequestFrame
RequestFrameNoPow(t, c) == Outbound(t, c.id, RequestType(c.op), c.name, 0, 0)

\* the request frame the operation writes: CreateRoom's second carries the
\* challenge it was sent and solvePoW's proof for it
RequestFrame(t, c) ==
    IF c.op = "CreateRoom" /\ c.phase = 2
    THEN Outbound(t, c.id, "room.create", c.name, c.ch.challenge,
                  solvePoW(c.ch.challenge, c.ch.difficulty))
    ELSE Outbound(t, c.id, RequestType(c.op), c.name, 0, 0)

\* the types the operation asks recvTyped for
WantTypes(op, phase) ==
    CASE op = "CreateRoom" /\ phase = 1 -> {"pow.challenge", "room.joined", "error"}
      [] op = "CreateRoom" /\ phase = 2 -> {"room.joined", "error"}
      [] op = "JoinRoom" -> {"room.joined", "error"}
      [] op = "ListRooms" -> {"rooms.list.result", "error"}
\* the room the operation asks recvTyped for
WantRoom(c) == IF c.op = "ListRooms" THEN Empty ELSE c.name

\* an operation that goes on without the operation mutex, for contrast with
\* lockOp
lockOpNone(t) == opMu' = opMu

\* c.opMu.Lock()
lockOp(t) == opMu = Free /\ opMu' = t

\* the deferred c.opMu.Unlock()
unlockOp(t) == opMu' = IF opMu = t THEN Free ELSE opMu

\* recvTyped's deferred re-queue: each skipped envelope goes back to respCh
\* unless respCh is full
Requeue(ch, queued) ==
    ch \o SubSeq(queued, 1, IF Len(queued) < RespCap - Len(ch)
                            THEN Len(queued) ELSE RespCap - Len(ch))

\* a caller enters one of the five operations of the client Connect
\* returned; of two idle callers the first is taken.  LeaveRoom's
\* delete(c.rooms, name) under c.mu is taken with the entry
callStart(t) ==
    /\ task[t] = "idle"
    /\ t = "caller2" => task["caller1"] # "idle"
    /\ connected = "live"
    /\ LastCall < MaxCalls
    /\ \E op \in Ops : \E name \in CallNames(op) :
          /\ op = "LeaveRoom" => mu = Free
          /\ rooms' = IF op = "LeaveRoom" THEN rooms \ {name} ELSE rooms
          /\ call' = [call EXCEPT ![t] = Invocation(op, name, LastCall + 1)]
          /\ task' = [task EXCEPT ![t] = IF op \in SyncOps THEN "lockOp" ELSE "write"]
    /\ UNCHANGED <<served, mu, opMu, wire, handshakeWrote, inbox, respCh, handshakeRead,
                   connected, wsOpen, reader>>

\* CreateRoom, JoinRoom, ListRooms: c.opMu.Lock()
callLock(t) ==
    /\ task[t] = "lockOp"
    /\ lockOp(t)
    /\ task' = [task EXCEPT ![t] = "write"]
    /\ UNCHANGED <<served, rooms, mu, wire, handshakeWrote, inbox, respCh, call, handshakeRead,
                   connected, wsOpen, reader>>

\* the operation's writeJSON(msg) begins
callWrite(t) ==
    /\ task[t] = "write"
    /\ writeJSON(t, "write.w")
    /\ UNCHANGED <<served, rooms, opMu, wire, handshakeWrote, inbox, respCh, call, handshakeRead,
                   connected, wsOpen, reader>>

\* the operation's writeJSON(msg) returns: SendMessage and LeaveRoom return
\* its result, the others return its error or go on to recvTyped
callWritten(t) ==
    /\ task[t] = "write.w"
    /\ \E ok \in BOOLEAN :
          LET c == call[t]
          IN  /\ written(t, RequestFrame(t, c), ok)
              /\ IF ok /\ c.op \in SyncOps
                 THEN /\ task' = [task EXCEPT ![t] = "recv"]
                      /\ UNCHANGED <<call, opMu>>
                 ELSE /\ task' = [task EXCEPT ![t] = "idle"]
                      /\ call' = [call EXCEPT ![t] =
                                     Return(c, Result(IF ok THEN "ok" ELSE "error", Empty))]
                      /\ unlockOp(t)
    /\ UNCHANGED <<served, rooms, handshakeWrote, inbox, respCh, handshakeRead, connected, wsOpen,
                   reader>>

\* what the operation returns on the envelope recvTyped gave it
ResultOn(op, env) ==
    IF op = "ListRooms" THEN Result("rooms", Empty)
    ELSE IF env.type = "error" THEN Result("error", Empty)
    ELSE Result("RoomInfo", env.room)

\* c.rooms[joined.Room] = true, which CreateRoom and JoinRoom do under c.mu
\* before they return a RoomInfo
Recorded(set, result) ==
    IF result.kind = "RoomInfo" THEN set \cup {result.room} ELSE set

\* recvTyped: one envelope from respCh.  One that does not match is queued;
\* on a match recvTyped returns and re-queues: CreateRoom goes on to solve
\* the challenge after a pow.challenge, otherwise the operation returns
\* (CreateRoom and JoinRoom record the room under c.mu first)
callRecv(t) ==
    /\ task[t] = "recv"
    /\ respCh # <<>>
    /\ LET c == call[t]
           env == Head(respCh)
       IN  IF ~TypedMatch(env, WantRoom(c), WantTypes(c.op, c.phase))
           THEN /\ call' = [call EXCEPT ![t].queued = Append(@, env)]
                /\ respCh' = Tail(respCh)
                /\ UNCHANGED <<task, opMu, rooms>>
           ELSE IF c.op = "CreateRoom" /\ c.phase = 1 /\ env.type = "pow.challenge"
           THEN /\ call' = [call EXCEPT ![t].queued = <<>>, ![t].phase = 2, ![t].ch = env]
                /\ respCh' = Requeue(Tail(respCh), c.queued)
                /\ task' = [task EXCEPT ![t] = "solve"]
                /\ UNCHANGED <<opMu, rooms>>
           ELSE /\ ResultOn(c.op, env).kind = "RoomInfo" => mu = Free
                /\ rooms' = Recorded(rooms, ResultOn(c.op, env))
                /\ call' = [call EXCEPT ![t] = Return(c, ResultOn(c.op, env))]
                /\ respCh' = Requeue(Tail(respCh), c.queued)
                /\ task' = [task EXCEPT ![t] = "idle"]
                /\ unlockOp(t)
    /\ UNCHANGED <<served, mu, wire, handshakeWrote, inbox, handshakeRead, connected, wsOpen,
                   reader>>

\* CreateRoom: solvePoW(ch.Challenge, ch.Difficulty) returns.  For a
\* difficulty beyond the bits of the hash no nonce makes it return:
\* verifyPoW is false for a hash with a one bit and reads past the hash's
\* end for a hash of zeros
callSolve(t) ==
    /\ task[t] = "solve"
    /\ call[t].ch.difficulty <= HashBits
    /\ task' = [task EXCEPT ![t] = "write"]
    /\ UNCHANGED <<served, rooms, mu, opMu, wire, handshakeWrote, inbox, respCh, call,
                   handshakeRead, connected, wsOpen, reader>>

\* recvTyped: the deadline passes; the operation returns the timeout
callTimeout(t) ==
    /\ task[t] = "recv"
    /\ call' = [call EXCEPT ![t] = Return(call[t], Result("timeout", Empty))]
    /\ respCh' = Requeue(respCh, call[t].queued)
    /\ task' = [task EXCEPT ![t] = "idle"]
    /\ unlockOp(t)
    /\ UNCHANGED <<served, rooms, mu, wire, handshakeWrote, inbox, handshakeRead, connected, wsOpen,
                   reader>>

\* the rest of the state, for the steps on the client's message channel
beside == <<daemon, session, pc, stopped, returned, observed, reconnect, lib>>

\* a message frame of the relay
MessageFrame(room, id) == [type |-> "message", room |-> room, id |-> id]

\* the relay sends a message frame to the session
relayMessage ==
    /\ wsOpen
    /\ connected = "live"
    /\ task["readLoop"] # "exited"
    /\ nextId <= MaxMsgs
    /\ inbox' = Append(inbox, MessageFrame(RoomA, nextId))
    /\ nextId' = nextId + 1
    /\ UNCHANGED <<beside, msgCh, rooms, task, mu, opMu, wire, handshakeWrote, respCh, call,
                   handshakeRead, connected, wsOpen, reader>>

\* a frame the relay sent, with the call whose request caused it (0: none)
Reply(e, id) == e @@ [re |-> id]

\* what the relay may answer to a frame: as Replies, and an error to a
\* message or a room.leave it does not accept
RepliesTo(f) ==
    IF f.type \in {"message", "room.leave"} THEN {Plain("error", Empty)}
    ELSE Replies(f)

\* the relay takes the next frame from the wire and answers it or not
relayReply ==
    /\ wsOpen
    /\ task["readLoop"] # "exited"
    /\ wire # <<>>
    /\ wire' = Tail(wire)
    /\ \/ inbox' = inbox
       \/ \E e \in RepliesTo(Head(wire)) : inbox' = Append(inbox, Reply(e, Head(wire).call))
    /\ UNCHANGED <<served, rooms, task, mu, opMu, handshakeWrote, respCh, call, handshakeRead,
                   connected, wsOpen, reader>>

\* the frames the relay sends on its own: the events of a room, a pong, and
\* an error no operation of this run has asked for
PushTypes == {"error", "pong", "room.member_joined", "room.member_left"}
\* the relay sends such a frame, as long as no more than one frame beyond
\* what respCh holds is on its way
relayPush ==
    /\ wsOpen
    /\ connected = "live"
    /\ task["readLoop"] # "exited"
    /\ Len(inbox) + Len(respCh) <= RespCap
    /\ \E type \in PushTypes : inbox' = Append(inbox, Reply(Plain(type, Empty), 0))
    /\ UNCHANGED <<served, rooms, task, mu, opMu, wire, handshakeWrote, respCh, call,
                   handshakeRead, connected, wsOpen, reader>>

\* the relay's error replies to frames of sends outside the calls of this
\* run (SendMessage and LeaveRoom await no reply): nobody awaits them
relayError ==
    /\ wsOpen
    /\ connected = "live"
    /\ task["readLoop"] # "exited"
    /\ nextId <= MaxMsgs
    /\ inbox' = Append(inbox, Reply(Plain("error", Empty), 0))
    /\ nextId' = nextId + 1
    /\ UNCHANGED <<beside, msgCh, rooms, task, mu, opMu, wire, handshakeWrote, respCh, call,
                   handshakeRead, connected, wsOpen, reader>>

\* the relay answers room.create with a challenge of a difficulty the hash
\* can meet or of one beyond its bits
AnyDifficulties == {0, HashBits, HashBits + 1}
relayDifficulty ==
    /\ wsOpen
    /\ task["readLoop"] # "exited"
    /\ wire # <<>>
    /\ Head(wire).type = "room.create"
    /\ wire' = Tail(wire)
    /\ \E d \in AnyDifficulties :
          inbox' = Append(inbox, Inbound("pow.challenge", Empty, 1, d))
    /\ UNCHANGED <<served, rooms, task, mu, opMu, handshakeWrote, respCh, call, handshakeRead,
                   connected, wsOpen, reader>>

\* readLoop, case "message": c.ws.ReadMessage() gave a message frame; the
\* loop is at c.msgCh <- IncomingMessage{...}, the frame (the loop's msg)
\* stays at the head of inbox until it is sent
readLoopMessageRead ==
    /\ task["readLoop"] = "read"
    /\ inbox # <<>>
    /\ Head(inbox).type = "message"
    /\ task' = [task EXCEPT !["readLoop"] = "send"]
    /\ reader' = "readLoop"
    /\ UNCHANGED <<served, rooms, mu, opMu, wire, handshakeWrote, inbox, respCh, call,
                   handshakeRead, connected, wsOpen>>

\* a channel without a capacity, for contrast with CanSend
CanSendAlways(ch) == TRUE

\* a send on c.msgCh goes through only while the channel is not full
CanSend(ch) == Len(ch) < ChanCap

\* readLoop: c.msgCh <- IncomingMessage{...} goes through, which it does
\* only while the channel is not full
readLoopMessageSend ==
    /\ task["readLoop"] = "send"
    /\ CanSend(msgCh[1])
    /\ msgCh' = [msgCh EXCEPT ![1] =
                    Append(@, IncomingMessage(Head(inbox).room, Head(inbox).id))]
    /\ inbox' = Tail(inbox)
    /\ task' = [task EXCEPT !["readLoop"] = "read"]
    /\ UNCHANGED <<beside, nextId, rooms, mu, opMu, wire, handshakeWrote, respCh, call,
                   handshakeRead, connected, wsOpen, reader>>

\* the user of the client receives from c.Messages()
messagesReceive ==
    /\ connected = "live"
    /\ msgCh[1] # <<>>
    /\ msgCh' = [msgCh EXCEPT ![1] = Tail(@)]
    /\ UNCHANGED <<beside, nextId, conn>>

\* c.closed was set
closed == task["Close"] \in {"closed", "returned"}

\* Close: c.closed = true under c.mu
closeMark ==
    /\ task["Close"] = "off"
    /\ connected = "live"
    /\ mu = Free
    /\ task' = [task EXCEPT !["Close"] = "closed"]
    /\ UNCHANGED <<served, rooms, mu, opMu, wire, handshakeWrote, inbox, respCh, call,
                   handshakeRead, connected, wsOpen, reader>>

\* Close: c.ws.Close(); Close returns
closeSocket ==
    /\ task["Close"] = "closed"
    /\ wsOpen' = FALSE
    /\ task' = [task EXCEPT !["Close"] = "returned"]
    /\ UNCHANGED <<served, rooms, mu, opMu, wire, handshakeWrote, inbox, respCh, call,
                   handshakeRead, connected, reader>>

\* Wait is called: c.disconnected.Wait()
waitCall ==
    /\ task["Wait"] = "off"
    /\ connected = "live"
    /\ task' = [task EXCEPT !["Wait"] = "waiting"]
    /\ UNCHANGED <<served, rooms, mu, opMu, wire, handshakeWrote, inbox, respCh, call,
                   handshakeRead, connected, wsOpen, reader>>

\* Wait returns: readLoop's deferred c.disconnected.Done() has run
waitReturn ==
    /\ task["Wait"] = "waiting"
    /\ task["readLoop"] = "exited"
    /\ task' = [task EXCEPT !["Wait"] = "returned"]
    /\ UNCHANGED <<served, rooms, mu, opMu, wire, handshakeWrote, inbox, respCh, call,
                   handshakeRead, connected, wsOpen, reader>>

\* pingLoop: a tick; c.closed is read under c.mu and is true: return
pingReturn ==
    /\ task["pingLoop"] = "tick"
    /\ closed
    /\ mu = Free
    /\ task' = [task EXCEPT !["pingLoop"] = "exited"]
    /\ UNCHANGED <<served, rooms, mu, opMu, wire, handshakeWrote, inbox, respCh, call,
                   handshakeRead, connected, wsOpen, reader>>

\* after the read loop has exited nobody reads the socket: what the client
\* writes goes nowhere and what the relay had sent is never read
relayGone ==
    /\ task["readLoop"] = "exited"
    /\ wire # <<>> \/ inbox # <<>>
    /\ wire' = <<>>
    /\ inbox' = <<>>
    /\ UNCHANGED <<served, rooms, task, mu, opMu, handshakeWrote, respCh, call,
                   handshakeRead, connected, wsOpen, reader>>

\* connectAndRejoin: go d.collectMessages(c) on the client Connect returned
collectStart ==
    /\ task["collectMessages"] = "off"
    /\ connected = "live"
    /\ task' = [task EXCEPT !["collectMessages"] = "range"]
    /\ UNCHANGED <<served, rooms, mu, opMu, wire, handshakeWrote, inbox, respCh, call,
                   handshakeRead, connected, wsOpen, reader>>

\* collectMessages: one iteration of the range over c.Messages().  The range
\* ends when the channel is closed, which nothing does: there is no step
\* that takes the collector out of it
collectNext ==
    /\ task["collectMessages"] = "range"
    /\ msgCh[1] # <<>>
    /\ msgCh' = [msgCh EXCEPT ![1] = Tail(@)]
    /\ UNCHANGED <<beside, nextId, conn>>

\* the client's variables but task
held == <<rooms, mu, opMu, wire, handshakeWrote, inbox, respCh, call, handshakeRead,
          connected, wsOpen, reader>>

\* d.mu is held over more than one step by handleStop's goroutine only;
\* every other critical section of d.mu is straight-line code and is taken
\* as one step, which needs the lock free
dmuHeld == task["handleStop"] = "locked"

\* a handler comes to its d.mu.RLock() or d.mu.Lock() while the lock is
\* held, and waits (on a free lock its critical section, which reads
\* d.client or updates joinedRooms, is over at once)
handlerArrive ==
    /\ dmuHeld
    /\ task["handler"] = "off"
    /\ task' = [task EXCEPT !["handler"] = "d.mu"]
    /\ UNCHANGED <<served, held>>

\* collectMessages: an iteration of the range, with its critical section
collectLocked ==
    /\ task["collectMessages"] = "range"
    /\ ~dmuHeld
    /\ collectMessages(1)

\* reconnectLoop: after c.Wait() has returned, d.mu.Lock(); d.client = nil;
\* d.mu.Unlock()
reconnectLocked ==
    /\ ~stopped
    /\ task["Wait"] = "returned"
    /\ ~dmuHeld
    /\ client' = Nil
    /\ task' = [task EXCEPT !["Wait"] = "cleared"]
    /\ UNCHANGED <<messages, joinedRooms, process, returned, observed, reconnect, lib, held>>

\* connectAndRejoin returns: go d.collectMessages(c); reconnectLoop reads
\* d.client and calls c.Wait()
rejoinReturn ==
    /\ task["collectMessages"] = "off"
    /\ connected = "live"
    /\ task' = [task EXCEPT !["collectMessages"] = "range", !["Wait"] = "waiting"]
    /\ UNCHANGED <<served, held>>

\* the relay sends a message once the client has read what was sent, up to
\* one more than the channel holds
relayMessageNext ==
    /\ inbox = <<>>
    /\ nextId <= ChanCap + 1
    /\ relayMessage

\* handleJoin's c.JoinRoom and handleSend's c.SendMessage, after the handler
\* has read d.client and released d.mu
handlerCall(t) ==
    /\ callStart(t)
    /\ call'[t].op \in {"JoinRoom", "SendMessage"}
    /\ call'[t].name = RoomA

\* handleStop's goroutine: d.mu.Lock() with d.client != nil
stopLock ==
    /\ ~stopped
    /\ task["handleStop"] = "off"
    /\ client # Nil /\ connected = "live"
    /\ task' = [task EXCEPT !["handleStop"] = "locked"]
    /\ UNCHANGED <<served, held>>

\* handleStop: d.client.Close() under d.mu, its two halves
stopClose == dmuHeld /\ closeMark
stopSocket == dmuHeld /\ closeSocket

\* handleStop: d.mu.Unlock(); os.Exit(0), which ends every task
stopExit ==
    /\ dmuHeld
    /\ task["Close"] = "returned" \/ client = Nil
    /\ task' = [t \in Tasks |-> "exited"]
    /\ stopped' = TRUE
    /\ UNCHANGED <<daemon, session, msgCh, nextId, pc, returned, observed, reconnect, lib, held>>

(***************************************************************************)
(* The Client of client.go: its Connect, handshake, pingLoop and writeJSON *)
(* are those above, but it has no operation mutex and no response channel: *)
(* CreateRoom, JoinRoom and ListRooms read their reply from the socket     *)
(* themselves while the read loop Connect started reads it too.  Two       *)
(* concurrent reads of one socket: each frame goes to either reader.       *)
(***************************************************************************)
\* a caller enters CreateRoom, JoinRoom or ListRooms of the client Connect
\* returned; of two idle callers the first is taken
inlineStart(t) ==
    /\ task[t] = "idle"
    /\ t = "caller2" => task["caller1"] # "idle"
    /\ connected = "live"
    /\ LastCall < MaxCalls
    /\ \E op \in SyncOps : \E name \in CallNames(op) :
          call' = [call EXCEPT ![t] = Invocation(op, name, LastCall + 1)]
    /\ task' = [task EXCEPT ![t] = "write"]
    /\ UNCHANGED <<served, rooms, mu, opMu, wire, handshakeWrote, inbox, respCh, handshakeRead,
                   connected, wsOpen, reader>>

\* the operation's c.writeJSON(msg) begins
inlineWrite(t) ==
    /\ task[t] = "write"
    /\ writeJSON(t, "write.w")
    /\ UNCHANGED <<served, rooms, opMu, wire, handshakeWrote, inbox, respCh, call, handshakeRead,
                   connected, wsOpen, reader>>

\* the operation's c.writeJSON(msg) returns: on an error the operation
\* returns it, otherwise it goes on to c.ws.ReadJSON(&resp)
inlineWritten(t) ==
    /\ task[t] = "write.w"
    /\ \E ok \in BOOLEAN :
          LET c == call[t]
          IN  /\ written(t, RequestFrame(t, c), ok)
              /\ IF ok
                 THEN /\ task' = [task EXCEPT ![t] = "read"]
                      /\ UNCHANGED call
                 ELSE /\ task' = [task EXCEPT ![t] = "idle"]
                      /\ call' = [call EXCEPT ![t] = Return(c, Result("error", Empty))]
    /\ UNCHANGED <<served, rooms, opMu, handshakeWrote, inbox, respCh, handshakeRead, connected,
                   wsOpen, reader>>

\* the operation's c.ws.ReadJSON(&resp) gave a frame: CreateRoom goes on to
\* its second request after a pow.challenge; otherwise the frame, whatever
\* its type, is the reply (CreateRoom and JoinRoom record the room under
\* c.mu first)
inlineRead(t) ==
    /\ task[t] = "read"
    /\ inbox # <<>>
    /\ inbox' = Tail(inbox)
    /\ reader' = t
    /\ LET c == call[t]
           env == Head(inbox)
       IN  IF c.op = "CreateRoom" /\ c.phase = 1 /\ env.type = "pow.challenge"
           THEN /\ call' = [call EXCEPT ![t].phase = 2, ![t].ch = env]
                /\ task' = [task EXCEPT ![t] = "write"]
                /\ UNCHANGED rooms
           ELSE /\ ResultOn(c.op, env).kind = "RoomInfo" => mu = Free
                /\ rooms' = Recorded(rooms, ResultOn(c.op, env))
                /\ call' = [call EXCEPT ![t] = Return(c, ResultOn(c.op, env))]
                /\ task' = [task EXCEPT ![t] = "idle"]
    /\ UNCHANGED <<served, mu, opMu, wire, handshakeWrote, respCh, handshakeRead, connected,
                   wsOpen>>

\* the operation's c.ws.ReadJSON(&resp) gave an error; the operation
\* returns it
inlineReadError(t) ==
    /\ task[t] = "read"
    /\ call' = [call EXCEPT ![t] = Return(call[t], Result("error", Empty))]
    /\ task' = [task EXCEPT ![t] = "idle"]
    /\ UNCHANGED <<served, rooms, mu, opMu, wire, handshakeWrote, inbox, respCh, handshakeRead,
                   connected, wsOpen, reader>>

\* readLoop of client.go: c.ws.ReadMessage() gave a frame; pong and every
\* frame that is not a message is dropped (the relay of this level sends no
\* message)
readLoopDrop ==
    /\ task["readLoop"] = "read"
    /\ inbox # <<>>
    /\ inbox' = Tail(inbox)
    /\ reader' = "readLoop"
    /\ UNCHANGED <<served, rooms, task, mu, opMu, wire, handshakeWrote, respCh, call, handshakeRead,
                   connected, wsOpen>>

(***************************************************************************)
(* solvePoW and verifyPoW on their own: solvePoW's loop one nonce at a     *)
(* time, for every challenge and every difficulty the hash can meet.       *)
(***************************************************************************)
\* fmt.Sprintf("%d", nonce): the decimal digits, most significant first
Digits == <<"0", "1", "2", "3", "4", "5", "6", "7", "8", "9">>
RECURSIVE Sprintf(_)
Sprintf(nonce) ==
    IF nonce < 10 THEN <<Digits[nonce + 1]>>
    ELSE Append(Sprintf(nonce \div 10), Digits[(nonce % 10) + 1])

\* the challenges and difficulties solvePoW is run on
PowChallenges == 0..(2 ^ HashBits - 1)
PowDifficulties == (0 - 1)..(HashBits + 1)

\* solvePoW's locals: at is "loop", "returned" or "panic"
PoW(challenge, difficulty, nonce, proof, at) ==
    [challenge |-> challenge, difficulty |-> difficulty, nonce |-> nonce,
     proof |-> proof, at |-> at]
NoPow == PoW(0, 0, 0, Empty, "off")

\* everything but solvePoW's locals
notPow == <<daemon, process, returned, observed, reconnect, conn, doc, file, loaded>>

\* solvePoW: proof := Sprintf(nonce); verifyPoW fails; nonce++
solvePoWNext ==
    /\ pow.at = "loop"
    /\ ~indexOutOfRange(pow.challenge, pow.nonce, pow.difficulty)
    /\ ~verifyPoW(pow.challenge, pow.nonce, pow.difficulty)
    /\ pow' = [pow EXCEPT !.nonce = @ + 1]
    /\ UNCHANGED notPow

\* solvePoW: proof := Sprintf(nonce); verifyPoW passes; return proof
solvePoWReturn ==
    /\ pow.at = "loop"
    /\ ~indexOutOfRange(pow.challenge, pow.nonce, pow.difficulty)
    /\ verifyPoW(pow.challenge, pow.nonce, pow.difficulty)
    /\ pow' = [pow EXCEPT !.proof = Sprintf(pow.nonce), !.at = "returned"]
    /\ UNCHANGED notPow

\* solvePoW: proof := Sprintf(nonce); verifyPoW indexes past the hash, a
\* run-time panic nothing recovers: the process aborts
solvePoWPanic ==
    /\ pow.at = "loop"
    /\ indexOutOfRange(pow.challenge, pow.nonce, pow.difficulty)
    /\ pow' = [pow EXCEPT !.at = "panic"]
    /\ UNCHANGED notPow

(***************************************************************************)
(* sign and canonicalJSON on their own.  A message is a JSON value: a      *)
(* number, a string, an array (its items in order) or an object.  A Go map *)
(* has no order of its own; an object is held as the pairs in the order    *)
(* they were inserted, which is one of the orders a range over the map may *)
(* take.  The bytes are a sequence of characters.                          *)
(***************************************************************************)
\* keys of one object of the messages canonicalJSON is run on
MaxKeys == 2

Num(n) == [kind |-> "number", of |-> n]
Str(s) == [kind |-> "string", of |-> s]
Arr(items) == [kind |-> "array", of |-> items]
Obj(pairs) == [kind |-> "object", of |-> pairs]

\* the characters of the keys, in byte order
Alphabet == <<"a", "b", "e", "g", "i", "n", "r", "s", "t", "u", "x">>
Rank(ch) == CHOOSE i \in 1..Len(Alphabet) : Alphabet[i] = ch
\* s < t for strings, byte by byte
RECURSIVE Less(_, _)
Less(s, t) ==
    IF t = <<>> THEN FALSE
    ELSE IF s = <<>> THEN TRUE
    ELSE IF s[1] = t[1] THEN Less(Tail(s), Tail(t))
    ELSE Rank(s[1]) < Rank(t[1])

\* seq without its i-th element
Without(seq, i) == SubSeq(seq, 1, i - 1) \o SubSeq(seq, i + 1, Len(seq))

\* keys left as the range gave them, for contrast with SortStrings
SortStringsNot(keys) == keys

\* sort.Strings(keys)
RECURSIVE SortStrings(_)
SortStrings(keys) ==
    IF keys = <<>> THEN <<>>
    ELSE LET i == CHOOSE i \in 1..Len(keys) :
                     \A j \in 1..Len(keys) : ~Less(keys[j], keys[i])
         IN  <<keys[i]>> \o SortStrings(Without(keys, i))

\* for k := range val: the keys of the map
RangeKeys(pairs) == [i \in 1..Len(pairs) |-> pairs[i][1]]
\* val[k]
Lookup(pairs, k) == pairs[CHOOSE i \in 1..Len(pairs) : pairs[i][1] = k][2]

\* json.Marshal of a string without special characters
Quote(s) == <<"\"">> \o s \o <<"\"">>

RECURSIVE canonicalJSON(_)
RECURSIVE canonicalMembers(_, _, _)
RECURSIVE canonicalItems(_, _)
\* canonicalJSON, case map: the members from the i-th sorted key on
canonicalMembers(pairs, keys, i) ==
    IF i > Len(keys) THEN <<>>
    ELSE (IF i > 1 THEN <<",">> ELSE <<>>)
         \o Quote(keys[i]) \o <<":">> \o canonicalJSON(Lookup(pairs, keys[i]))
         \o canonicalMembers(pairs, keys, i + 1)
\* canonicalJSON, case slice: the items from the i-th on
canonicalItems(items, i) ==
    IF i > Len(items) THEN <<>>
    ELSE (IF i > 1 THEN <<",">> ELSE <<>>)
         \o canonicalJSON(items[i]) \o canonicalItems(items, i + 1)
\* canonicalJSON(v)
canonicalJSON(v) ==
    CASE v.kind = "object" ->
            <<"{">> \o canonicalMembers(v.of, SortStrings(RangeKeys(v.of)), 1) \o <<"}">>
      [] v.kind = "array" -> <<"[">> \o canonicalItems(v.of, 1) \o <<"]">>
      [] v.kind = "string" -> Quote(v.of)
      [] v.kind = "number" -> Sprintf(v.of)

\* ed25519.Sign and base58.Encode: the signature is fixed by the key and
\* the bytes, and differs for different bytes
Signature(privKey, bytes) == [key |-> privKey, signed |-> bytes]
\* Client.sign(msg)
sign(privKey, msg) == Signature(privKey, canonicalJSON(msg))

SignatureKey == <<"s", "i", "g", "n", "a", "t", "u", "r", "e">>
KeyNames == {<<"a">>, <<"a", "b">>, <<"b">>, SignatureKey}
\* the values of the members: a number, a string, an array, an object
Members ==
    {Num(1), Str(<<"x">>), Arr(<<Num(2), Num(1)>>),
     Obj(<<<<<<"b">>, Num(1)>>, <<<<"a">>, Num(2)>>>>)}
\* the injective sequences of n keys
KeyOrders(n) ==
    {ks \in [1..n -> KeyNames] : \A i, j \in 1..n : ks[i] = ks[j] => i = j}
\* the messages: objects of at most MaxKeys members, in every order of
\* insertion
Messages ==
    UNION {{Obj([i \in 1..n |-> <<ks[i], vs[i]>>]) :
               ks \in KeyOrders(n), vs \in [1..n -> Members]} : n \in 0..MaxKeys}
\* the orders of 1..n
Orders1(n) == {f \in [1..n -> 1..n] : \A i, j \in 1..n : f[i] = f[j] => i = j}
\* the same value with the members of its objects inserted in another order
Reordered(v) ==
    IF v.kind # "object" THEN {v}
    ELSE {Obj([i \in 1..Len(v.of) |-> v.of[f[i]]]) : f \in Orders1(Len(v.of))}
\* the same message assembled in another order, at both levels
Reassembled(m) ==
    UNION {{Obj([i \in 1..Len(m.of) |-> <<m.of[f[i]][1], vs[i]>>]) :
               vs \in {ws \in [1..Len(m.of) -> UNION {Reordered(m.of[k][2]) : k \in 1..Len(m.of)}] :
                          \A i \in 1..Len(m.of) : ws[i] \in Reordered(m.of[f[i]][2])}} :
           f \in Orders1(Len(m.of))}

\* the keys the client signs with
PrivKeys == {1, 2}

\* two messages, their canonical bytes and their signatures
Doc(m1, m2, c1, c2, s1, s2, key, at) ==
    [m1 |-> m1, m2 |-> m2, c1 |-> c1, c2 |-> c2, s1 |-> s1, s2 |-> s2,
     key |-> key, at |-> at]
NoSignature == Signature(0, <<>>)
NoDoc == Doc(Obj(<<>>), Obj(<<>>), <<>>, <<>>, NoSignature, NoSignature, 0, "off")

\* everything but the two messages
notDoc == <<daemon, process, returned, observed, reconnect, conn, pow, file, loaded>>

\* canonicalJSON(m1)
canonicalFirst ==
    /\ doc.at = "first"
    /\ doc' = [doc EXCEPT !.c1 = canonicalJSON(doc.m1), !.at = "second"]
    /\ UNCHANGED notDoc

\* canonicalJSON(m2)
canonicalSecond ==
    /\ doc.at = "second"
    /\ doc' = [doc EXCEPT !.c2 = canonicalJSON(doc.m2), !.at = "sign"]
    /\ UNCHANGED notDoc

\* c.sign(m1)
signFirst ==
    /\ doc.at = "sign"
    /\ doc' = [doc EXCEPT !.s1 = sign(doc.key, doc.m1), !.at = "sign2"]
    /\ UNCHANGED notDoc

\* c.sign(m2)
signSecond ==
    /\ doc.at = "sign2"
    /\ doc' = [doc EXCEPT !.s2 = sign(doc.key, doc.m2), !.at = "done"]
    /\ UNCHANGED notDoc

(***************************************************************************)
(* keystore.LoadOrCreate on one path.  Keys are strings of bytes and       *)
(* base58 is computed digit by digit, both over small alphabets: a byte    *)
(* has ByteBase values, base58 has the digits of Base58Digits, and the     *)
(* sizes of ed25519 (seed 32, public key 32, private key 64 = seed and     *)
(* public key) are scaled to SeedSize and PublicKeySize.                   *)
(***************************************************************************)
\* calls of LoadOrCreate in one run
MaxLoads == 2

ByteBase == 3
Base58Digits == <<"1", "2">>
Base58Base == Len(Base58Digits)
SeedSize == 1
PublicKeySize == 1
PrivateKeySize == SeedSize + PublicKeySize
Bytes == 0..(ByteBase - 1)

\* the number a string of bytes stands for, most significant byte first
RECURSIVE BigInt(_)
BigInt(bytes) ==
    IF bytes = <<>> THEN 0
    ELSE ByteBase * BigInt(SubSeq(bytes, 1, Len(bytes) - 1)) + bytes[Len(bytes)]
\* the bytes of a number, without leading zeros
RECURSIVE BigBytes(_)
BigBytes(x) == IF x = 0 THEN <<>> ELSE Append(BigBytes(x \div ByteBase), x % ByteBase)
\* the base58 digits of a number, without leading zero digits
RECURSIVE BigDigits(_)
BigDigits(x) ==
    IF x = 0 THEN <<>>
    ELSE Append(BigDigits(x \div Base58Base), Base58Digits[(x % Base58Base) + 1])
\* the number of leading elements of seq equal to z
RECURSIVE Leading(_, _)
Leading(seq, z) ==
    IF seq = <<>> \/ seq[1] # z THEN 0 ELSE 1 + Leading(Tail(seq), z)
Repeat(z, n) == [i \in 1..n |-> z]

\* base58.Encode: the digits of the number, one zero digit ahead for each
\* leading zero byte
base58Encode(bytes) == Repeat(Base58Digits[1], Leading(bytes, 0)) \o BigDigits(BigInt(bytes))

DigitOf(ch) == CHOOSE v \in 0..(Base58Base - 1) : Base58Digits[v + 1] = ch
RECURSIVE DigitsInt(_)
DigitsInt(str) ==
    IF str = <<>> THEN 0
    ELSE Base58Base * DigitsInt(SubSeq(str, 1, Len(str) - 1)) + DigitOf(str[Len(str)])

\* a Decode that drops the leading zero bytes, for contrast with Decode
base58DecodeNoZeros(str) ==
    IF \E i \in 1..Len(str) : \A v \in 1..Base58Base : Base58Digits[v] # str[i]
    THEN <<>>
    ELSE BigBytes(DigitsInt(str))

\* base58.Decode: empty on a character that is no digit; one zero byte for
\* each leading zero digit, then the bytes of the number
base58Decode(str) ==
    IF \E i \in 1..Len(str) : \A v \in 1..Base58Base : Base58Digits[v] # str[i]
    THEN <<>>
    ELSE Repeat(0, Leading(str, Base58Digits[1])) \o BigBytes(DigitsInt(str))

\* ed25519: the public key of a seed
PublicOf(seed) == [i \in 1..PublicKeySize |-> (2 * seed[i] + 1) % ByteBase]
\* ed25519.GenerateKey: the private key is the seed and the public key
Seeds == [1..SeedSize -> Bytes]
PrivateOf(seed) == seed \o PublicOf(seed)

\* priv.Public(): copy(publicKey, priv[32:]) into a zeroed public key
Public(priv) ==
    [i \in 1..PublicKeySize |-> IF SeedSize + i <= Len(priv) THEN priv[SeedSize + i] ELSE 0]

\* what is stored at path: nothing, bytes that are no JSON, or a JSON
\* object whose private_key is a string ("" when the member is missing)
File(exists, json, private_key) ==
    [exists |-> exists, json |-> json, private_key |-> private_key]
NoFile == File(FALSE, FALSE, <<>>)
Garbage == File(TRUE, FALSE, <<>>)
Stored(str) == File(TRUE, TRUE, str)
\* the strings of at most n bytes
BytesUpTo(n) == UNION {[1..k -> Bytes] : k \in 0..n}
\* the files LoadOrCreate may find
Files ==
    {NoFile, Garbage, Stored(<<"0">>)}
       \cup {Stored(base58Encode(b)) : b \in BytesUpTo(PrivateKeySize + 1)}

\* what a call returned: keys (and their agent ID), the error of MkdirAll,
\* of json.Unmarshal or of the write, or a panic of the process; found is the file the call met, wrote whether it wrote one
Load(kind, priv, pub, found, wrote) ==
    [kind |-> kind, priv |-> priv, pub |-> pub, found |-> found, wrote |-> wrote]
\* Keys.AgentID()
AgentID(k) == base58Encode(k.pub)

\* everything but the keystore
notKeystore == <<daemon, process, returned, observed, reconnect, conn, pow, doc>>

\* LoadOrCreate: os.MkdirAll fails
LoadOrCreateMkdirError ==
    /\ Len(loaded) < MaxLoads
    /\ loaded' = Append(loaded, Load("mkdir error", <<>>, <<>>, file, FALSE))
    /\ UNCHANGED <<file, notKeystore>>

\* LoadOrCreate: os.ReadFile gave the file's bytes
LoadOrCreateLoad ==
    /\ Len(loaded) < MaxLoads
    /\ file.exists
    /\ LET priv == base58Decode(file.private_key)
       IN  loaded' = Append(loaded,
              IF ~file.json THEN Load("parse error", <<>>, <<>>, file, FALSE)
              ELSE IF Len(priv) < SeedSize THEN Load("panic", <<>>, <<>>, file, FALSE)
              ELSE Load("keys", priv, Public(priv), file, FALSE))
    /\ UNCHANGED <<file, notKeystore>>

\* LoadOrCreate: os.ReadFile gave an error; a new keypair is generated and
\* written
LoadOrCreateNew ==
    /\ Len(loaded) < MaxLoads
    /\ ~file.exists
    /\ \E seed \in Seeds :
          /\ file' = Stored(base58Encode(PrivateOf(seed)))
          /\ loaded' = Append(loaded, Load("keys", PrivateOf(seed), PublicOf(seed), file, TRUE))
    /\ UNCHANGED notKeystore

\* LoadOrCreate: ed25519.GenerateKey or os.WriteFile fails; a failed write
\* may leave the file created and empty
LoadOrCreateNewError ==
    /\ Len(loaded) < MaxLoads
    /\ ~file.exists
    /\ file' \in {NoFile, Garbage}
    /\ loaded' = Append(loaded, Load("write error", <<>>, <<>>, file, file' # file))
    /\ UNCHANGED notKeystore

(***************************************************************************)
(* The daemon once Start has connected and listens.                        *)
(***************************************************************************)
Started ==
    /\ messages = <<>>
    /\ joinedRooms = {}
    /\ client = 1
    /\ session = [s \in Sessions |-> IF s = 1 THEN "live" ELSE "none"]
    /\ msgCh = [s \in Sessions |-> <<>>]
    /\ nextId = 1
    /\ pc = "wait"
    /\ stopped = FALSE
    /\ returned = {}
    /\ ev = "idle"
    /\ req = NoReq
    /\ resp = NoResp
    /\ reply = NoReply
    /\ out = <<>>
    /\ backoff = 0
    /\ rejoinRooms = <<>>
    /\ joinedOn = [s \in Sessions |-> {}]
    /\ task = [t \in Tasks |-> IF t = "Connect" THEN "hello"
                                ELSE IF t \in Callers THEN "idle" ELSE "off"]
    /\ mu = Free
    /\ opMu = Free
    /\ wire = <<>>
    /\ handshakeWrote = <<>>
    /\ inbox = <<>>
    /\ respCh = <<>>
    /\ call = [t \in Callers |-> NoCall]
    /\ handshakeRead = <<>>
    /\ connected = "pending"
    /\ wsOpen = TRUE
    /\ reader = "none"
    /\ rooms = {}

\* no package function runs on its own
Unused == pow = NoPow /\ doc = NoDoc /\ file = NoFile /\ loaded = <<>>

Init == Started /\ Unused /\ relay = "any"

\* the whole API, the reconnect loop and a short message flow
Next ==
    \/ Observed
    \/ ServeStatus
    \/ ServeRooms
    \/ ServeCreateRoom
    \/ ServeJoinRoom
    \/ ServeLeaveRoom
    \/ ServeSend
    \/ ServeMessages
    \/ ServeHistory
    \/ ServeStop
    \/ \E s \in Sessions : readLoopMessage(s, MaxApiMsgs)
    \/ \E s \in Sessions : readLoopExit(s)
    \/ \E s \in Sessions : collectMessages(s)
    \/ reconnectClear
    \/ connectAndRejoin

Spec == Init /\ [][Next]_vars

\* the message flow at length: read loops, collectors and reconnects against
\* the polls of /messages
NextBuffer ==
    \/ Observed
    \/ PollMessages
    \/ \E s \in Sessions : readLoopMessage(s, MaxMsgs)
    \/ \E s \in Sessions : readLoopExit(s)
    \/ \E s \in Sessions : collectMessages(s)
    \/ reconnectClear
    \/ connectAndRejoin

SpecBuffer == Init /\ [][NextBuffer]_vars

(***************************************************************************)
(* The reconnect loop in steps, against the commands of the API.  The      *)
(* relay holds a set of rooms per session: a room.joined reply tells the   *)
(* session it was added, a room.leave frame removes the room.              *)
(***************************************************************************)
CommandRooms == {RoomA, RoomB}
\* the commands as the CLI sends them: POST, the token, a JSON body
Commands ==
    {r \in Requests :
        /\ r.path \in {"/rooms/create", "/rooms/join", "/rooms/leave", "/send"}
        /\ r.method = "POST" /\ Authorized(r.auth) /\ r.json
        /\ r.room \in CommandRooms}

\* the relay's rooms of the sessions after an operation that wrote frames
\* and took the reply got
RelayView(view, got, frames) ==
    IF frames = <<>> THEN view
    ELSE LET f == frames[1]
         IN  IF f.type = "room.leave"
             THEN [view EXCEPT ![f.sess] = @ \ {f.room}]
             ELSE IF got.kind = "envelope" /\ got.env.type = "room.joined"
             THEN [view EXCEPT ![f.sess] = @ \cup {got.env.room}]
             ELSE view

\* the outcomes session c and the relay allow to an operation on room name:
\* a dead session forwards no reply; an accepting relay on a live session
\* takes every frame and answers a join or create with room.joined
Outcome(c, name, got, frames) ==
    /\ session[c] = "dead" => got.kind # "envelope"
    /\ (relay = "accepting" /\ session[c] = "live") =>
          /\ frames # <<>>
          /\ frames[1].type \in {"room.join", "room.create"} =>
                got = Got(Joined(name))

\* command r served, wherever the reconnect loop is
Command(r) ==
    /\ requireAuth(r, HandlerFor(r.path))
    /\ client # Nil => Outcome(client, r.room, reply', out')
    /\ joinedOn' = RelayView(joinedOn, reply', out')

CommandCreate ==
    /\ Running
    /\ \E r \in Commands : r.path = "/rooms/create" /\ Command(r)

CommandJoin ==
    /\ Running
    /\ \E r \in Commands : r.path = "/rooms/join" /\ Command(r)

CommandLeave ==
    /\ Running
    /\ \E r \in Commands : r.path = "/rooms/leave" /\ Command(r)

CommandSend ==
    /\ Running
    /\ \E r \in Commands : r.path = "/send" /\ Command(r)

\* reconnectLoop: connectAndRejoin returned the error of client.Connect;
\* backoff doubles while it is below the limit and the loop sleeps again
connectFail ==
    /\ Running
    /\ pc = "backoff"
    /\ backoff' = IF backoff < MaxBackoff THEN backoff * 2 ELSE backoff
    /\ UNCHANGED <<daemon, session, msgCh, nextId, pc, stopped, returned, observed,
                   rejoinRooms, joinedOn, relay>>
    /\ UNCHANGED <<conn, lib>>

\* connectAndRejoin up to the end of its critical section: client.Connect
\* gave a session, d.client = c, rooms is the snapshot of joinedRooms
connectSnapshot ==
    /\ Running
    /\ pc = "backoff"
    /\ \E s \in Sessions :
          /\ session[s] = "none"
          /\ \A t \in Sessions : session[t] = "none" => s <= t
          /\ session' = [session EXCEPT ![s] = "live"]
          /\ client' = s
    /\ \E o \in Orders(joinedRooms) : rejoinRooms' = o
    /\ pc' = "rejoin"
    /\ UNCHANGED <<messages, joinedRooms, msgCh, nextId, stopped, returned, observed,
                   backoff, joinedOn, relay>>
    /\ UNCHANGED <<conn, lib>>

\* connectAndRejoin: c.JoinRoom(room) for the next room of rooms; an error
\* is logged and the pass goes on
rejoinRoom ==
    /\ Running
    /\ pc = "rejoin"
    /\ rejoinRooms # <<>>
    /\ \E w1 \in BOOLEAN : \E arrivals \in ArrivalsAfter(w1) :
          LET res == JoinRoom(client, Head(rejoinRooms), w1, arrivals)
          IN  /\ res.unread = <<>>
              /\ Outcome(client, Head(rejoinRooms), res.got, res.wrote)
              /\ ev' = "rejoin"
              /\ reply' = res.got
              /\ out' = res.wrote
              /\ joinedOn' = RelayView(joinedOn, res.got, res.wrote)
    /\ rejoinRooms' = Tail(rejoinRooms)
    /\ UNCHANGED <<daemon, process, returned, req, resp, backoff, relay>>
    /\ UNCHANGED <<conn, lib>>

\* connectAndRejoin returns nil after the pass (the collector is started);
\* reconnectLoop leaves the retry loop
rejoinDone ==
    /\ Running
    /\ pc = "rejoin"
    /\ rejoinRooms = <<>>
    /\ pc' = "wait"
    /\ backoff' = 0
    /\ ev' = "connect"
    /\ UNCHANGED <<daemon, session, msgCh, nextId, stopped, returned, req, resp, reply, out,
                   rejoinRooms, joinedOn, relay>>
    /\ UNCHANGED <<conn, lib>>

InitReconnect == Started /\ Unused /\ relay \in {"accepting", "any"}

NextReconnect ==
    \/ Observed
    \/ CommandCreate
    \/ CommandJoin
    \/ CommandLeave
    \/ CommandSend
    \/ \E s \in Sessions : readLoopExit(s)
    \/ reconnectClear
    \/ connectFail
    \/ connectSnapshot
    \/ rejoinRoom
    \/ rejoinDone

SpecReconnect == InitReconnect /\ [][NextReconnect]_vars

\* the reconnect loop with /status and the commands, its steps taken
\* whenever they can be
NextRecover ==
    \/ Observed
    \/ ServeStatus
    \/ CommandCreate
    \/ CommandJoin
    \/ CommandLeave
    \/ CommandSend
    \/ \E s \in Sessions : readLoopExit(s)
    \/ reconnectClear
    \/ connectFail
    \/ connectSnapshot
    \/ rejoinRoom
    \/ rejoinDone

\* the loop's goroutine is scheduled: c.Wait() returns once the read loop
\* has exited, a sleep ends, JoinRoom returns (with a reply, an error or the
\* timeout), and Connect succeeds on a relay that accepts.  The requests
\* and the death of a session are left open
FairRecover ==
    /\ WF_vars(Observed)
    /\ SF_vars(reconnectClear)
    /\ SF_vars(relay = "accepting" /\ connectSnapshot)
    /\ SF_vars(rejoinRoom)
    /\ SF_vars(rejoinDone)

SpecRecover == InitReconnect /\ [][NextRecover]_vars /\ FairRecover

\* one client from Connect on
NextClient ==
    \/ relayAnswer
    \/ handshakeHello
    \/ handshakeHelloWritten
    \/ handshakeChallenge
    \/ handshakePow
    \/ handshakePowWritten
    \/ handshakeWelcome
    \/ handshakeReadError
    \/ readLoopForward
    \/ readLoopReturn
    \/ pingWrite
    \/ pingWritten
    \/ \E t \in Callers : callStart(t)
    \/ \E t \in Callers : callLock(t)
    \/ \E t \in Callers : callWrite(t)
    \/ \E t \in Callers : callWritten(t)
    \/ \E t \in Callers : callRecv(t)
    \/ \E t \in Callers : callSolve(t)
    \/ \E t \in Callers : callTimeout(t)

SpecClient == Init /\ [][NextClient]_vars

\* Connect alone, against challenges of every difficulty
NextHandshake ==
    \/ relayChallenge
    \/ relayAnswer
    \/ handshakeHello
    \/ handshakeHelloWritten
    \/ handshakeChallenge
    \/ handshakePow
    \/ handshakePowWritten
    \/ handshakeWelcome
    \/ handshakeReadError

SpecHandshake == Init /\ [][NextHandshake]_vars

\* one client of client.go from Connect on
NextInline ==
    \/ relayAnswer
    \/ handshakeHello
    \/ handshakeHelloWritten
    \/ handshakeChallenge
    \/ handshakePow
    \/ handshakePowWritten
    \/ handshakeWelcome
    \/ handshakeReadError
    \/ readLoopDrop
    \/ readLoopReturn
    \/ pingWrite
    \/ pingWritten
    \/ \E t \in Callers : inlineStart(t)
    \/ \E t \in Callers : inlineWrite(t)
    \/ \E t \in Callers : inlineWritten(t)
    \/ \E t \in Callers : inlineRead(t)
    \/ \E t \in Callers : inlineReadError(t)

SpecInline == Init /\ [][NextInline]_vars

\* the calls of one client against a relay that sends challenges of any
\* difficulty, with Close; every task of the client that can take a step
\* takes one in the end, and recvTyped's deadline passes
NextCalls ==
    \/ relayAnswer
    \/ relayDifficulty
    \/ handshakeHello
    \/ handshakeHelloWritten
    \/ handshakeChallenge
    \/ handshakePow
    \/ handshakePowWritten
    \/ handshakeWelcome
    \/ handshakeReadError
    \/ readLoopForward
    \/ readLoopReturn
    \/ closeMark
    \/ closeSocket
    \/ \E t \in Callers : callStart(t)
    \/ \E t \in Callers : callLock(t)
    \/ \E t \in Callers : callWrite(t)
    \/ \E t \in Callers : callWritten(t)
    \/ \E t \in Callers : callRecv(t)
    \/ \E t \in Callers : callSolve(t)
    \/ \E t \in Callers : callTimeout(t)

FairCalls ==
    /\ \A t \in Callers :
          /\ WF_vars(callLock(t))
          /\ WF_vars(callWrite(t))
          /\ WF_vars(callWritten(t))
          /\ WF_vars(callSolve(t))
          /\ WF_vars(callTimeout(t))
    /\ WF_vars(readLoopForward)
    /\ WF_vars(closeSocket)

SpecCalls == Init /\ [][NextCalls]_vars /\ FairCalls

\* one client whose relay sends messages, with Close and Wait: the read
\* loop takes the steps it can take, a read on the closed socket returns
\* its error, Close and Wait go on once called; nothing obliges the user to
\* receive from Messages()
NextClose ==
    \/ relayAnswer
    \/ relayMessage
    \/ handshakeHello
    \/ handshakeHelloWritten
    \/ handshakeChallenge
    \/ handshakePow
    \/ handshakePowWritten
    \/ handshakeWelcome
    \/ handshakeReadError
    \/ readLoopMessageRead
    \/ readLoopMessageSend
    \/ readLoopReturn
    \/ messagesReceive
    \/ closeMark
    \/ closeSocket
    \/ waitCall
    \/ waitReturn

FairClose ==
    /\ WF_vars(readLoopMessageRead)
    /\ WF_vars(readLoopMessageSend)
    /\ WF_vars(~wsOpen /\ readLoopReturn)
    /\ WF_vars(closeSocket)
    /\ WF_vars(waitReturn)

SpecClose == Init /\ [][NextClose]_vars /\ FairClose

\* one client without callers, whose relay sends events, pongs, errors and
\* messages on its own
NextRoute ==
    \/ relayReply
    \/ relayPush
    \/ relayMessage
    \/ handshakeHello
    \/ handshakeHelloWritten
    \/ handshakeChallenge
    \/ handshakePow
    \/ handshakePowWritten
    \/ handshakeWelcome
    \/ handshakeReadError
    \/ readLoopForward
    \/ readLoopMessageRead
    \/ readLoopMessageSend
    \/ readLoopReturn
    \/ messagesReceive

SpecRoute == Init /\ [][NextRoute]_vars

\* one client and its callers, whose relay answers each frame or stays
\* silent and sends frames on its own
NextReplies ==
    \/ relayReply
    \/ relayError
    \/ handshakeHello
    \/ handshakeHelloWritten
    \/ handshakeChallenge
    \/ handshakePow
    \/ handshakePowWritten
    \/ handshakeWelcome
    \/ handshakeReadError
    \/ readLoopForward
    \/ readLoopReturn
    \/ \E t \in Callers : callStart(t)
    \/ \E t \in Callers : callLock(t)
    \/ \E t \in Callers : callWrite(t)
    \/ \E t \in Callers : callWritten(t)
    \/ \E t \in Callers : callRecv(t)
    \/ \E t \in Callers : callSolve(t)
    \/ \E t \in Callers : callTimeout(t)

SpecReplies == Init /\ [][NextReplies]_vars

\* one client with its read loop, its ping loop and the daemon's collector;
\* the session ends by a read error or by Close
NextTasks ==
    \/ relayReply
    \/ relayMessage
    \/ relayGone
    \/ handshakeHello
    \/ handshakeHelloWritten
    \/ handshakeChallenge
    \/ handshakePow
    \/ handshakePowWritten
    \/ handshakeWelcome
    \/ handshakeReadError
    \/ readLoopForward
    \/ readLoopMessageRead
    \/ readLoopMessageSend
    \/ readLoopReturn
    \/ pingWrite
    \/ pingWritten
    \/ pingReturn
    \/ collectStart
    \/ collectNext
    \/ closeMark
    \/ closeSocket

\* every task goes on when it can; whether the socket fails, whether the
\* relay answers and whether anybody calls Close is left open
FairTasks ==
    /\ WF_vars(readLoopForward)
    /\ WF_vars(readLoopMessageRead)
    /\ WF_vars(readLoopMessageSend)
    /\ WF_vars(~wsOpen /\ readLoopReturn)
    /\ WF_vars(pingWrite)
    /\ WF_vars(pingWritten)
    /\ WF_vars(pingReturn)
    /\ WF_vars(collectStart)
    /\ WF_vars(collectNext)
    /\ WF_vars(closeSocket)
    /\ WF_vars(relayGone)

SpecTasks == Init /\ [][NextTasks]_vars /\ FairTasks

\* one client, the tasks of the daemon around it and /stop, lock by lock;
\* JoinRoom ends by its reply, by the deadline of recvTyped or by a write
\* error
NextLocks ==
    \/ relayWelcome
    \/ relayMessageNext
    \/ handshakeHello
    \/ handshakeHelloWritten
    \/ handshakeChallenge
    \/ handshakePow
    \/ handshakePowWritten
    \/ handshakeWelcome
    \/ handshakeReadError
    \/ readLoopForward
    \/ readLoopMessageRead
    \/ readLoopMessageSend
    \/ readLoopReturn
    \/ pingWrite
    \/ pingWritten
    \/ \E t \in Callers : handlerCall(t)
    \/ \E t \in Callers : callLock(t)
    \/ \E t \in Callers : callWrite(t)
    \/ \E t \in Callers : callWritten(t)
    \/ \E t \in Callers : callRecv(t)
    \/ \E t \in Callers : callTimeout(t)
    \/ rejoinReturn
    \/ collectLocked
    \/ handlerArrive
    \/ waitReturn
    \/ reconnectLocked
    \/ stopLock
    \/ stopClose
    \/ stopSocket
    \/ stopExit

SpecLocks == Init /\ [][NextLocks]_vars

\* solvePoW on every challenge and difficulty
InitPoW ==
    /\ Started
    /\ relay = "any"
    /\ doc = NoDoc /\ file = NoFile /\ loaded = <<>>
    /\ \E c \in PowChallenges, d \in PowDifficulties : pow = PoW(c, d, 0, Empty, "loop")

NextPoW ==
    \/ solvePoWNext
    \/ solvePoWReturn
    \/ solvePoWPanic

SpecPoW == InitPoW /\ [][NextPoW]_vars

\* canonicalJSON and sign on every message in two orders of assembly
InitCanonical ==
    /\ Started
    /\ relay = "any"
    /\ pow = NoPow /\ file = NoFile /\ loaded = <<>>
    /\ \E m1 \in Messages : \E m2 \in Reassembled(m1) : \E key \in PrivKeys :
          doc = Doc(m1, m2, <<>>, <<>>, NoSignature, NoSignature, key, "first")

NextCanonical ==
    \/ canonicalFirst
    \/ canonicalSecond
    \/ signFirst
    \/ signSecond

SpecCanonical == InitCanonical /\ [][NextCanonical]_vars

\* LoadOrCreate called again and again on a path holding any file
InitKeystore ==
    /\ Started
    /\ relay = "any"
    /\ pow = NoPow /\ doc = NoDoc
    /\ file \in Files
    /\ loaded = <<>>

NextKeystore ==
    \/ LoadOrCreateMkdirError
    \/ LoadOrCreateLoad
    \/ LoadOrCreateNew
    \/ LoadOrCreateNewError

SpecKeystore == InitKeystore /\ [][NextKeystore]_vars

(***************************************************************************)
(* Properties of the incoming buffer, checked under SpecBuffer.            *)
(***************************************************************************)
\* the lower-case spelling of a room name of the model
LowerName(n) == IF n = RoomUpperA THEN RoomA ELSE n
\* two names of one room: the relay's rooms are matched without case
SameRoom(a, b) == LowerName(a) = LowerName(b)
\* this step served a /messages request in handleMessages
PolledMessages == ev' = "http" /\ resp'.handler = "handleMessages"
\* every frame of the run was sent and collected
AllCollected == nextId = MaxMsgs + 1 /\ \A s \in Sessions : msgCh[s] = <<>>

\* C1: in every reachable state, under any interleaving of the collectors of
\* all sessions (those of dead sessions included) and /messages drains, the
\* ring buffer holds at most its capacity of records (1000 in the code).
C1_BufferBounded == Len(messages) <= BufferCap

\* C1 witness: all frames were collected through two sessions, nothing was
\* drained, and the buffer is full with its oldest record evicted.
C1_Witness ==
    /\ AllCollected
    /\ returned = {}
    /\ session[2] # "none"
    /\ Len(messages) = BufferCap
    /\ 1 \notin Ids(messages)

\* C2: when GET /messages?room=R (R not empty) completes, the buffer holds no
\* record of room R, whatever the case of the record's room name, and the
\* records of the other rooms are all still there in their order.
C2_DrainRemovesRoom ==
    [][(PolledMessages /\ req'.room # Empty) =>
          /\ \A i \in 1..Len(messages') :
                ~SameRoom(messages'[i].room, req'.room)
          /\ messages' = SelectSeq(messages,
                             LAMBDA m : ~SameRoom(m.room, req'.room))]_vars

\* C2 witness: a drain of room "a" took a record of room "A" and left two
\* records of another room.
C2_Witness ==
    /\ ev = "http" /\ resp.handler = "handleMessages"
    /\ req.room = RoomA
    /\ Len(messages) >= 2
    /\ \E i \in 1..Len(resp.body.data) : resp.body.data[i].room = RoomUpperA

\* C3: GET /messages returns the matching records in buffer order: all of
\* them when at most the limit (50 in the code) match, and otherwise exactly
\* the limit's number of most recent ones.
C3_ReturnsLastMatching ==
    [][PolledMessages =>
          LET all == SelectSeq(messages,
                         LAMBDA m : req'.room = Empty \/ SameRoom(m.room, req'.room))
              n == Len(all)
              data == resp'.body.data
          IN  /\ n <= ReturnLimit => data = all
              /\ n > ReturnLimit =>
                    /\ Len(data) = ReturnLimit
                    /\ \A k \in 1..ReturnLimit : data[k] = all[n - ReturnLimit + k]]_vars

\* C3 witness: the first drain that returned anything found a full buffer
\* (more records than the limit) and returned the limit's number of them.
C3_Witness ==
    /\ ev = "http" /\ resp.handler = "handleMessages"
    /\ req.room = Empty
    /\ AllCollected
    /\ Len(resp.body.data) = ReturnLimit
    /\ returned = Ids(resp.body.data)

\* C4: a record a /messages call returns was in the buffer and is removed
\* from it in the same step, is in no message channel, and was returned by
\* no earlier call; after an unfiltered call's drain the buffer is empty.
C4_DestructiveRead ==
    [][PolledMessages =>
          LET got == Ids(resp'.body.data)
          IN  /\ got \subseteq Ids(messages)
              /\ got \cap Ids(messages') = {}
              /\ got \cap returned = {}
              /\ \A s \in Sessions : got \cap Ids(msgCh'[s]) = {}
              /\ req'.room = Empty => messages' = <<>>]_vars

\* C4 witness: a call returns records after an earlier call returned others,
\* while a collector still has a record to insert.
C4_Witness ==
    /\ ev = "http" /\ resp.handler = "handleMessages"
    /\ resp.body.data # <<>>
    /\ returned # Ids(resp.body.data)
    /\ \E s \in Sessions : msgCh[s] # <<>>

\* C37: a record enters the buffer once, from the head of a message
\* channel, and leaves it in one of three ways only: returned by a /messages
\* call (by that call alone), evicted as the oldest by an insert at
\* capacity, or dropped by a drain that matched more records than a call
\* returns.  No record is in the buffer twice, and none is in the buffer and
\* returned.
C37_RecordAccounting ==
    [][LET before == Ids(messages)
           after == Ids(messages')
           left == before \ after
           came == after \ before
           got == IF PolledMessages THEN Ids(resp'.body.data) ELSE {}
       IN  /\ Len(messages') = Cardinality(after)
           /\ after \cap returned' = {}
           /\ returned' = returned \cup got
           /\ got \cap returned = {}
           /\ got \subseteq left
           /\ Cardinality(came) <= 1
           /\ \A i \in came :
                 /\ i \notin returned
                 /\ \E s \in Sessions :
                       /\ msgCh[s] # <<>> /\ Head(msgCh[s]).id = i
                       /\ msgCh'[s] = Tail(msgCh[s])
           /\ left # {} =>
                 \/ /\ PolledMessages
                    /\ \A i \in 1..Len(messages) :
                          messages[i].id \in left <=> Matches(messages[i], req'.room)
                    /\ left # got => Cardinality(left) > ReturnLimit
                    /\ Cardinality(got) = IF Cardinality(left) > ReturnLimit
                                          THEN ReturnLimit ELSE Cardinality(left)
                 \/ /\ came # {}
                    /\ Len(messages) = BufferCap
                    /\ left = {Head(messages).id}]_vars

\* C37 witness: every frame was sent and collected, a /messages call has
\* just emptied the buffer, and fewer records were returned than were
\* sent: the others were evicted or dropped by a drain.
C37_Witness ==
    /\ ev = "http" /\ resp.handler = "handleMessages"
    /\ AllCollected
    /\ messages = <<>>
    /\ resp.body.data # <<>>
    /\ Cardinality(returned) < MaxMsgs
    /\ Cardinality(returned) > Len(resp.body.data)

(***************************************************************************)
(* Properties of the HTTP API, checked under Spec.                         *)
(***************************************************************************)
\* the Authorization header the daemon accepts
BearerHeader == "Bearer " \o apiToken
\* the endpoints that need the relay session
SessionPaths == {"/rooms/create", "/rooms/join", "/rooms/leave", "/send"}
\* the endpoints the API table gives as POST
PostPaths == SessionPaths \cup {"/stop"}

\* C5: on every endpoint a request whose Authorization header is absent or
\* is not "Bearer <token>" is answered 401 without the handler running:
\* buffer, intent set, client reference, sessions and process are unchanged
\* and nothing is written to the relay; a request with exactly that header
\* is served by the endpoint's handler.
C5_AuthRequired ==
    [][ev' = "http" =>
          IF req'.auth = BearerHeader
          THEN resp'.handler = HandlerFor(req'.path)
          ELSE /\ resp'.status = 401
               /\ resp'.handler = "none"
               /\ out' = <<>>
               /\ UNCHANGED <<messages, joinedRooms, client, session, msgCh,
                              stopped, returned>>]_vars

\* C5 witness: /messages with a wrong token got 401 while the buffer held
\* records and the daemon had a client and a joined room.
C5_Witness ==
    /\ ev = "http" /\ req.path = "/messages" /\ req.auth = "Bearer wrong-token"
    /\ resp.status = 401
    /\ messages # <<>> /\ client # Nil /\ joinedRooms # {}

\* C6: while the client reference is nil, an authorized POST with a JSON
\* body to /rooms/create, /rooms/join, /rooms/leave or /send is answered 503
\* "not connected", leaves the intent set and the buffer unchanged and
\* writes nothing to any socket; /status answers 200 with connected=false.
C6_NotConnected ==
    [][(ev' = "http" /\ client = Nil /\ req'.auth = BearerHeader) =>
          /\ (req'.path \in SessionPaths /\ req'.method = "POST" /\ req'.json) =>
                /\ resp'.status = 503
                /\ resp'.body.text = "not connected"
                /\ out' = <<>>
                /\ UNCHANGED <<joinedRooms, messages>>
          /\ req'.path = "/status" =>
                /\ resp'.status = 200
                /\ resp'.body.data = <<FALSE>>]_vars

\* C6 witness: between a disconnect and the reconnect, the leave of a joined
\* room was answered 503 and the room is still in the intent set.
C6_Witness ==
    /\ ev = "http" /\ req.path = "/rooms/leave" /\ req.method = "POST"
    /\ client = Nil /\ pc = "backoff"
    /\ resp.status = 503
    /\ req.room \in joinedRooms
    /\ messages # <<>>

\* C7: every POST endpoint (/rooms/create, /rooms/join, /rooms/leave, /send,
\* /stop) answers 405 to an authorized request whose method is not POST, and
\* the request has no effect: nothing is written and the process runs on.
C7_NonPostRejected ==
    (ev = "http" /\ req.auth = BearerHeader /\ req.path \in PostPaths
        /\ req.method # "POST")
    => (resp.status = 405 /\ out = <<>> /\ ~stopped)

\* C8: an authorized POST to /rooms/create, /rooms/join, /rooms/leave or
\* /send whose body is not valid JSON is answered 400 and nothing is written
\* to the relay, whether or not a client is connected.
C8_BadJsonRejected ==
    (ev = "http" /\ req.auth = BearerHeader /\ req.path \in SessionPaths
        /\ req.method = "POST" /\ ~req.json)
    => (resp.status = 400 /\ out = <<>>)

\* C9: when the relay's reply to a command (room.create, room.join,
\* rooms.list) is an error frame, the endpoint answers 400 carrying the
\* frame's message; an error frame never becomes a successful result.
C9_ErrorFrameSurfaced ==
    (ev = "http" /\ reply.kind = "envelope" /\ reply.env.type = "error")
    => (resp.status = 400 /\ resp.body.text = reply.env.message)

\* C10: when no matching reply arrives before the deadline, the endpoint
\* that invoked the operation (/rooms/create, /rooms/join, /rooms) answers
\* 500.
C10_TimeoutIs500 ==
    (ev = "http" /\ reply.kind = "timeout") => resp.status = 500

\* this step's operation failed: a status other than 200, a timeout, an
\* error frame, no client, or a body that is not JSON
OperationFailed ==
    \/ resp'.status # 200
    \/ reply'.kind = "timeout"
    \/ reply'.kind = "envelope" /\ reply'.env.type = "error"
    \/ client = Nil
    \/ ~req'.json

\* C12: the intent set changes only on successful replies: room R is added
\* only by a create or join of R answered 200 on a room.joined reply for R,
\* R is removed only by a leave of R answered 200 whose room.leave frame for
\* R was written, and an operation that fails (error frame, timeout, write
\* failure, not connected, bad request) leaves the set unchanged.
C12_IntentOnSuccess ==
    [][/\ \A R \in joinedRooms' \ joinedRooms :
             /\ ev' = "http"
             /\ resp'.handler \in {"handleCreateRoom", "handleJoinRoom"}
             /\ req'.json /\ req'.room = R
             /\ resp'.status = 200
             /\ reply' = Got(Joined(R))
       /\ \A R \in joinedRooms \ joinedRooms' :
             /\ ev' = "http"
             /\ resp'.handler = "handleLeaveRoom"
             /\ req'.json /\ req'.room = R
             /\ resp'.status = 200
             /\ \E i \in DOMAIN out' :
                   out'[i].type = "room.leave" /\ out'[i].room = R
       /\ (ev' = "http" /\ OperationFailed) => UNCHANGED joinedRooms]_vars

(***************************************************************************)
(* Properties of the reconnect loop, checked under SpecReconnect.          *)
(***************************************************************************)
\* the handlers that write the intent set
IntentHandlers == {"handleCreateRoom", "handleJoinRoom", "handleLeaveRoom"}

\* C11: a disconnection never changes the joined-room intent set: the read
\* loop's exit, the clearing of the client reference, a failed reconnect
\* attempt and every step of the rejoin pass (a rejoin that fails included)
\* leave it as it was; only a step of the HTTP create, join or leave handler
\* changes it.
C11_DisconnectKeepsIntent ==
    [][joinedRooms' # joinedRooms =>
          (ev' = "http" /\ resp'.handler \in IntentHandlers)]_vars

\* C11 witness: the first session is dead, attempts to connect have failed,
\* a rejoin has just timed out, and both rooms are still in the intent set.
C11_Witness ==
    /\ ev = "rejoin" /\ reply.kind = "timeout"
    /\ session[1] = "dead"
    /\ backoff > InitialBackoff
    /\ joinedRooms = CommandRooms

C14_RejoinFramesFirst ==
    (ev = "http" /\ out # <<>> /\ pc = "rejoin" /\ rejoinRooms # <<>>)
    => out[1].sess # client

\* C15: the reconnect delay starts at 2 seconds when the retry loop is
\* entered (after every successful reconnect again), doubles after a failed
\* attempt, and never exceeds 60 seconds whatever the number of consecutive
\* failures.
C15_BackoffBounded ==
    [][/\ (pc = "wait" /\ pc' = "backoff") => backoff' = InitialBackoff
       /\ (pc = "backoff" /\ pc' = "backoff" /\ backoff' # backoff) =>
             backoff' = 2 * backoff
       /\ pc' = "backoff" => backoff' <= MaxBackoff]_vars

(***************************************************************************)
(* Properties of one client, checked under SpecClient and SpecHandshake.   *)
(***************************************************************************)
\* caller t is in CreateRoom, JoinRoom or ListRooms between the start of
\* its first write and its return
InSync(t) ==
    call[t].op \in SyncOps /\ task[t] \in {"write", "write.w", "recv", "solve"}
\* caller t has written a request of such an operation and has not returned
Awaiting(t) ==
    /\ call[t].op \in SyncOps
    /\ \/ task[t] = "recv"
       \/ call[t].phase = 2 /\ task[t] \in {"solve", "write", "write.w"}
\* this step puts a request frame of caller t's synchronous operation on
\* the wire
WroteSync(t) ==
    /\ call[t].op \in SyncOps
    /\ task[t] = "write.w" /\ task'[t] # "write.w"
    /\ Len(wire') > Len(wire)

\* C16: on one client at most one of CreateRoom, JoinRoom, ListRooms is
\* between writing its request and returning, so at most one caller awaits
\* on respCh; and no request frame of a synchronous operation is written
\* while another synchronous operation has written a request and has not
\* returned, so the frames of one operation (both frames of a two-phase
\* create) are never separated by a request frame of another.
C16_OperationsSerialized ==
    [][/\ \A t, u \in Callers : (InSync(t)' /\ InSync(u)') => t = u
       /\ \A t, u \in Callers : (task'[t] = "recv" /\ task'[u] = "recv") => t = u
       /\ \A t, u \in Callers : (WroteSync(t) /\ Awaiting(u)) => t = u]_vars

\* C16 witness: a CreateRoom has written both its frames and awaits the
\* reply while the other caller waits for the operation mutex.
C16_Witness ==
    /\ task["caller1"] = "recv"
    /\ call["caller1"].op = "CreateRoom" /\ call["caller1"].phase = 2
    /\ task["caller2"] = "lockOp"

\* C17: no two writes on the socket overlap: under any interleaving of the
\* handshake, the operations and the ping loop at most one task is inside
\* c.ws.WriteJSON.
C17_WritesSerialized ==
    \A t, u \in Tasks : (InWrite(t) /\ InWrite(u)) => t = u

\* C17 witness: the ping loop is inside its write while two callers, a
\* SendMessage and a synchronous operation, wait to write.
C17_Witness ==
    /\ task["pingLoop"] = "ping.w"
    /\ task["caller1"] = "write" /\ task["caller2"] = "write"
    /\ call["caller1"].op \in SyncOps
    /\ call["caller2"].op = "SendMessage"

\* task t is in a read of the socket
Reading(t) ==
    \/ t = "Connect" /\ task[t] \in {"readChallenge", "readWelcome"}
    \/ t = "readLoop" /\ task[t] = "read"
    \/ t \in Callers /\ task[t] = "read"

\* C18: at most one task reads the socket at any time: the handshake reads
\* before the read loop is started, after the handshake only the read loop
\* reads, and no frame is ever taken from the socket by an operation.
C18_OneReader ==
    /\ \A t, u \in Tasks : (Reading(t) /\ Reading(u)) => t = u
    /\ Reading("readLoop") => (connected = "live" /\ task["Connect"] = "returned")
    /\ connected = "live" => ~Reading("Connect")
    /\ reader \in {"none", "Connect", "readLoop"}
    /\ reader = "readLoop" => connected = "live"

\* C19: Connect returns a live session only after hello was written, one
\* frame was read that is pow.challenge, hello.pow was written with that
\* challenge and a proof valid for it at its difficulty, and one frame was
\* read that is welcome; any other frame at either read makes Connect fail
\* with the socket closed, and the read loop and the ping loop are started
\* for a live session only.
C19_HandshakeSequence ==
    /\ Len(handshakeRead) <= Len(handshakeWrote)
    /\ Len(handshakeWrote) <= Len(handshakeRead) + 1
    /\ connected = "live" =>
          /\ Len(handshakeWrote) = 2 /\ Len(handshakeRead) = 2
          /\ handshakeWrote[1].type = "hello"
          /\ handshakeRead[1].type = "pow.challenge"
          /\ handshakeWrote[2].type = "hello.pow"
          /\ handshakeWrote[2].challenge = handshakeRead[1].challenge
          /\ verifyPoW(handshakeRead[1].challenge, handshakeWrote[2].proof,
                       handshakeRead[1].difficulty)
          /\ handshakeRead[2].type = "welcome"
    /\ \A i \in DOMAIN handshakeRead :
          handshakeRead[i].type # (IF i = 1 THEN "pow.challenge" ELSE "welcome")
             => connected = "failed"
    /\ connected = "failed" => ~wsOpen
    /\ connected # "live" => (task["readLoop"] = "off" /\ task["pingLoop"] = "off")

\* C19 witness: Connect returned a live session after a challenge of the
\* highest difficulty whose proof is not the first nonce.
C19_Witness ==
    /\ connected = "live"
    /\ handshakeRead[1].difficulty = MaxDifficulty
    /\ handshakeWrote[2].proof > 0

\* caller t takes an envelope from respCh in this step
TookEnvelope(t) ==
    /\ task[t] = "recv"
    /\ call'[t] # call[t]
    /\ call'[t].result.kind # "timeout"
\* caller t is in a CreateRoom or JoinRoom
RoomCall(t) == call[t].op \in {"CreateRoom", "JoinRoom"}

\* C20 as stated: JoinRoom(name) and CreateRoom(name) never return a
\* RoomInfo taken from a room.joined envelope whose room differs from name.
C20_ReplyForOwnRoom ==
    [][\A t \in Callers :
          (RoomCall(t) /\ TookEnvelope(t) /\ call'[t].result.kind = "RoomInfo")
             => call'[t].result.room = call[t].name]_vars

\* C20 amended: for a name that is not empty, JoinRoom(name) and
\* CreateRoom(name) never return a RoomInfo taken from a room.joined
\* envelope whose room differs from name: the await skips such an envelope
\* (it is queued for the re-queue) and goes on waiting.
C20_ReplyForNamedRoom ==
    [][\A t \in Callers :
          (RoomCall(t) /\ TookEnvelope(t) /\ call[t].name # Empty) =>
             /\ call'[t].result.kind = "RoomInfo" =>
                   call'[t].result.room = call[t].name
             /\ (Head(respCh).type = "room.joined" /\ Head(respCh).room # call[t].name) =>
                   /\ task'[t] = "recv"
                   /\ call'[t].queued = Append(call[t].queued, Head(respCh))]_vars

\* C20 witness: the second call returned the RoomInfo of its room a, and the
\* room.joined of room b that was ahead of it in respCh is back in respCh.
C20_Witness ==
    /\ call["caller1"].id = 2
    /\ call["caller1"].result = Result("RoomInfo", RoomA)
    /\ respCh = <<Plain("room.joined", RoomB)>>
    /\ wire = <<>> /\ inbox = <<>>

(***************************************************************************)
(* The ring buffer's discipline, checked under SpecBuffer.                 *)
(***************************************************************************)
\* this step is an iteration of the collector of session s: it took the
\* head of the session's message channel
Collected(s) == Len(msgCh'[s]) < Len(msgCh[s])

\* C29: the ring buffer is FIFO with oldest-first eviction: inserting record
\* m into a full buffer b1..bN yields b2..bN,m; inserting into a buffer with
\* fewer than N records appends m and removes nothing (N is 1000 in the
\* code, BufferCap here).
C29_FifoEviction ==
    [][\A s \in Sessions : Collected(s) =>
          LET m == Head(msgCh[s])
          IN  IF Len(messages) = BufferCap
              THEN messages' = Append(Tail(messages), m)
              ELSE /\ Len(messages) < BufferCap
                   /\ messages' = Append(messages, m)]_vars

\* C29 witness: no poll has returned a record, the buffer is full and its
\* oldest record is the second the relay sent: the first was evicted by the
\* insert of the newest.
C29_Witness ==
    /\ returned = {}
    /\ Len(messages) = BufferCap
    /\ messages[1].id = 2
    /\ messages[BufferCap].id = BufferCap + 1

\* C23: for every room, the records of that room are in the ring buffer in
\* the order the relay sent them, through the message channels and the
\* collectors and across reconnects.
C23_RoomOrderKept ==
    \A i, j \in 1..Len(messages) :
        (i < j /\ messages[i].room = messages[j].room) =>
            messages[i].id < messages[j].id

(***************************************************************************)
(* Properties of the proof of work, checked under SpecPoW.                 *)
(***************************************************************************)
\* the number a string of decimal digits stands for
DigitValue(ch) == CHOOSE v \in 0..9 : Digits[v + 1] = ch
RECURSIVE Atoi(_)
Atoi(str) ==
    IF str = <<>> THEN 0
    ELSE 10 * Atoi(SubSeq(str, 1, Len(str) - 1)) + DigitValue(str[Len(str)])
\* the hash's first difficulty bits are zero
TopBitsZero(challenge, nonce, difficulty) ==
    Hash(challenge, nonce) < 2 ^ (HashBits - difficulty)

\* C24: for every challenge and difficulty the proof solvePoW returns
\* verifies: the top difficulty bits of the hash of challenge and proof are
\* zero; the proof is the decimal string of the smallest nonce, counting
\* from 0, that passes ("0" at difficulty 0).
C24_ProofVerifies ==
    pow.at = "returned" =>
        /\ pow.proof # <<>>
        /\ \A i \in 1..Len(pow.proof) : pow.proof[i] \in {Digits[d] : d \in 1..10}
        /\ Len(pow.proof) > 1 => pow.proof[1] # "0"
        /\ verifyPoW(pow.challenge, Atoi(pow.proof), pow.difficulty)
        /\ TopBitsZero(pow.challenge, Atoi(pow.proof), pow.difficulty)
        /\ \A n \in 0..(Atoi(pow.proof) - 1) :
              ~TopBitsZero(pow.challenge, n, pow.difficulty)
        /\ pow.difficulty = 0 => pow.proof = <<"0">>

\* C24 witness: solvePoW returned a proof of two digits for a difficulty of
\* all the hash's bits.
C24_Witness ==
    /\ pow.at = "returned"
    /\ pow.difficulty = HashBits
    /\ Len(pow.proof) = 2

(***************************************************************************)
(* Properties of canonicalJSON and sign, checked under SpecCanonical.      *)
(***************************************************************************)
\* the member of pairs with exactly n keys below its own
Placed(pairs, n) ==
    CHOOSE i \in 1..Len(pairs) :
        Cardinality({j \in 1..Len(pairs) : Less(pairs[j][1], pairs[i][1])}) = n
\* the canonical form stated by position: the members of an object by
\* ascending key, the items of an array in their order, no whitespace
RECURSIVE Canonical(_)
RECURSIVE CanonicalFrom(_, _)
CanonicalFrom(v, i) ==
    IF i > Len(v.of) THEN <<>>
    ELSE (IF i > 1 THEN <<",">> ELSE <<>>)
         \o (IF v.kind = "object"
             THEN Quote(v.of[Placed(v.of, i - 1)][1]) \o <<":">>
                  \o Canonical(v.of[Placed(v.of, i - 1)][2])
             ELSE Canonical(v.of[i]))
         \o CanonicalFrom(v, i + 1)
Canonical(v) ==
    CASE v.kind = "object" -> <<"{">> \o CanonicalFrom(v, 1) \o <<"}">>
      [] v.kind = "array" -> <<"[">> \o CanonicalFrom(v, 1) \o <<"]">>
      [] v.kind = "string" -> Quote(v.of)
      [] v.kind = "number" -> Sprintf(v.of)

\* C25: canonicalJSON gives the same bytes for two objects with the same
\* keys and values whatever the order their keys were inserted in, at every
\* level: keys ascending, array items in their order, no whitespace; and
\* signing the two with one key gives the same signature.
C25_OrderIndependent ==
    /\ doc.at \in {"sign", "sign2", "done"} =>
          /\ doc.c1 = doc.c2
          /\ doc.c1 = Canonical(doc.m1)
          /\ \A i \in 1..Len(doc.c1) : doc.c1[i] \notin {" ", "\n", "\t"}
    /\ doc.at = "done" => doc.s1 = doc.s2

\* C25 witness: both were signed; the second message has the two members
\* of the first in the other order and a nested object in another order.
C25_Witness ==
    /\ doc.at = "done"
    /\ Len(doc.m1.of) = 2
    /\ doc.m1.of[1][1] = doc.m2.of[2][1]
    /\ doc.m1.of[1][2].kind = "object"
    /\ doc.m1.of[1][2] # doc.m2.of[2][2]

\* m with every member named signature removed
Unsigned(m) == Obj(SelectSeq(m.of, LAMBDA p : p[1] # SignatureKey))

\* C26: the bytes sign(m) signs are the canonical form of m with any key
\* named signature removed: sign(m) equals sign(m without signature), also
\* when m carries a signature entry when it is signed.
C26_SignatureExcluded ==
    doc.at \in {"sign2", "done"} =>
        /\ doc.s1.signed = Canonical(Unsigned(doc.m1))
        /\ doc.s1 = sign(doc.key, Unsigned(doc.m1))

(***************************************************************************)
(* Properties of the keystore, checked under SpecKeystore.                 *)
(***************************************************************************)
\* the i-th call created the keypair: it met no file and wrote one
Created(i) == loaded[i].kind = "keys" /\ loaded[i].wrote

Corrupt(f) ==
    /\ f.exists
    /\ ~f.json \/ Len(base58Decode(f.private_key)) # PrivateKeySize

\* C28: LoadOrCreate on an existing file that does not parse, or whose
\* private_key does not decode to a key of the right length, returns an
\* error and no keys, and neither overwrites the file nor generates a new
\* identity.
C28_CorruptRejected ==
    [][(Len(loaded') > Len(loaded) /\ Corrupt(file)) =>
          /\ loaded'[Len(loaded')].kind \in {"parse error", "mkdir error"}
          /\ loaded'[Len(loaded')].priv = <<>>
          /\ ~loaded'[Len(loaded')].wrote
          /\ file' = file]_vars

(***************************************************************************)
(* Properties of CreateRoom, checked under SpecClient.                     *)
(***************************************************************************)
\* this step is the return of task t's c.ws.WriteJSON with the frame out
WroteRequest(t) == task[t] = "write.w" /\ Len(wire') = Len(wire) + 1
\* this step is the return of task t's call
CallReturned(t) == call[t].op # "none" /\ call'[t].op = "none"
\* the frame carries no pow
NoPowIn(f) == f.challenge = 0 /\ f.proof = 0

\* C30: a CreateRoom writes its requests while it holds the operation mutex:
\* first a room.create without pow, after which it awaits; from the first
\* await it goes on to a second request only on a pow.challenge, and that
\* request carries the challenge received and a proof that verifies for it;
\* from the second await it only returns, so a call writes at most two
\* requests.  It returns a RoomInfo and adds the room to c.rooms only on a
\* room.joined envelope, and a return with an error or a timeout leaves
\* c.rooms as it was.
C30_CreateRoomSequence ==
    [][\A t \in Callers : call[t].op = "CreateRoom" =>
          LET c == call[t]
          IN  /\ WroteRequest(t) =>
                    LET f == wire'[Len(wire')]
                    IN  /\ opMu = t
                        /\ f.type = "room.create" /\ f.room = c.name /\ f.call = c.id
                        /\ c.phase = 1 => NoPowIn(f) /\ c.ch = NoChallenge
                        /\ c.phase = 2 =>
                              /\ c.ch.type = "pow.challenge"
                              /\ f.challenge = c.ch.challenge
                              /\ verifyPoW(f.challenge, f.proof, c.ch.difficulty)
                        /\ task'[t] = "recv" /\ call'[t] = c
              /\ (task[t] = "recv" /\ task'[t] # "recv") =>
                    \/ CallReturned(t)
                    \/ /\ task'[t] = "solve"
                       /\ c.phase = 1 /\ call'[t].phase = 2
                       /\ Head(respCh).type = "pow.challenge"
                       /\ call'[t].ch = Head(respCh)
              /\ (task[t] = "solve" /\ task'[t] # "solve") =>
                    task'[t] = "write" /\ call'[t] = c
              /\ c.phase \in {1, 2}
              /\ CallReturned(t) =>
                    LET r == call'[t].result
                    IN  IF r.kind = "RoomInfo"
                        THEN /\ task[t] = "recv"
                             /\ Head(respCh).type = "room.joined"
                             /\ r.room = Head(respCh).room
                             /\ rooms' = rooms \cup {r.room}
                             /\ opMu = t
                        ELSE /\ r.kind \in {"error", "timeout"}
                             /\ rooms' = rooms]_vars

\* a CreateRoom that was sent a pow.challenge has written its second request
\* and the room.joined for its room is the next envelope of respCh
C30_Witness ==
    \E t \in Callers :
        /\ call[t].op = "CreateRoom" /\ call[t].phase = 2 /\ task[t] = "recv"
        /\ call[t].name = RoomA /\ call[t].ch.difficulty = MaxDifficulty
        /\ respCh # <<>> /\ Head(respCh) = Plain("room.joined", RoomA)
        /\ RoomA \notin rooms

(***************************************************************************)
(* Termination of the calls, checked under SpecCalls; Close and Wait,      *)
(* checked under SpecClose.                                                *)
(***************************************************************************)
\* C21: every call of CreateRoom, JoinRoom or ListRooms returns in the end,
\* whatever the relay sends (nothing, or a pow.challenge of any difficulty)
\* and whether the session is closed or dies meanwhile; and the operation
\* mutex a call holds is released in the end.
C21_CallsReturn ==
    /\ \A t \in Callers : (call[t].op \in SyncOps) ~> (call[t].op = "none")
    /\ \A t \in Callers : (opMu = t) ~> (opMu # t)

ReadFrame ==
    /\ task["readLoop"] = "read"
    /\ inbox # <<>>
    /\ reader' = "readLoop"
    /\ inbox' = Tail(inbox) \/ task'["readLoop"] = "send"

\* C31: the read loop routes each frame it reads by its type: a message
\* goes towards the message channel and to it when the send goes through,
\* pong, room.member_joined and room.member_left are discarded, any other
\* type is appended to respCh if respCh holds fewer than 4 envelopes and is
\* dropped otherwise.  respCh never holds more than 4 envelopes, and the
\* read loop never blocks on it: with a frame of such a type read, its step
\* is enabled whatever respCh holds.
C31_ReadLoopRoutes ==
    [][/\ Len(respCh') <= RespCap
       /\ (task["readLoop"] = "read" /\ inbox # <<>> /\ Head(inbox).type # "message")
             => ENABLED readLoopForward
       /\ ReadFrame =>
             LET f == Head(inbox)
             IN  CASE f.type = "message" ->
                        /\ task'["readLoop"] = "send"
                        /\ Head(inbox') = f
                        /\ respCh' = respCh /\ msgCh' = msgCh
                   [] f.type \in {"pong", "room.member_joined", "room.member_left"} ->
                        respCh' = respCh /\ msgCh' = msgCh
                   [] OTHER ->
                        /\ msgCh' = msgCh
                        /\ respCh' = IF Len(respCh) < RespCap THEN Append(respCh, f)
                                     ELSE respCh
       /\ (task["readLoop"] = "send" /\ task'["readLoop"] # "send")
             => /\ task'["readLoop"] = "read"
                /\ msgCh'[1] = Append(msgCh[1],
                                      IncomingMessage(Head(inbox).room, Head(inbox).id))
                /\ respCh' = respCh]_vars

\* the read loop has filled respCh and put a message on the message
\* channel, and the next frame of the socket is one more for respCh
C31_Witness ==
    /\ Len(respCh) = RespCap
    /\ task["readLoop"] = "read"
    /\ reader = "readLoop"
    /\ inbox # <<>> /\ Head(inbox).type = "error"
    /\ msgCh[1] # <<>>

\* the records of the message frames the relay has sent that are still in
\* the socket
Unread == [i \in 1..Len(SelectSeq(inbox, LAMBDA f : f.type = "message")) |->
             SelectSeq(inbox, LAMBDA f : f.type = "message")[i].id]

\* C34: the message channel never holds more than its capacity (1000 in
\* the code, ChanCap here).  While the read loop is at the insert with the
\* channel full it takes no step: it reads no further frame and forwards
\* nothing to respCh, and it goes on only by inserting the record of the
\* frame it read.  No message frame it read is discarded: the frame leaves
\* the socket only when its record enters the channel, so the relay's
\* message frames are, in order, those received, those in the channel and
\* those still in the socket.
C34_MessageChannelBlocks ==
    [][/\ Len(msgCh'[1]) <= ChanCap
       /\ (task["readLoop"] = "send" /\ Len(msgCh[1]) = ChanCap)
             => /\ task'["readLoop"] = "send"
                /\ Len(inbox') >= Len(inbox)
                /\ SubSeq(inbox', 1, Len(inbox)) = inbox
                /\ respCh' = respCh
                /\ reader' = reader
       /\ task["readLoop"] = "send"
             => \/ task'["readLoop"] = "send" /\ Head(inbox') = Head(inbox)
                \/ /\ task'["readLoop"] = "read"
                   /\ msgCh'[1] = Append(msgCh[1],
                                         IncomingMessage(Head(inbox).room, Head(inbox).id))
       /\ (handshakeRead' = handshakeRead /\ Len(msgCh'[1]) >= Len(msgCh[1]))
             => Len(msgCh'[1]) + Len(Unread') >= Len(msgCh[1]) + Len(Unread)]_vars

\* the read loop is at the insert with the channel full, with a frame for
\* respCh and a further message behind the one it read
C34_Witness ==
    /\ task["readLoop"] = "send"
    /\ Len(msgCh[1]) = ChanCap
    /\ Len(inbox) >= 3
    /\ \E i \in 2..Len(inbox) : inbox[i].type = "error"
    /\ \E i \in 2..Len(inbox) : inbox[i].type = "message"

\* Properties of the response channel

\* caller t's recvTyped returns an envelope in this step
Accepted(t) ==
    /\ task[t] = "recv"
    /\ task'[t] # "recv"
    /\ call'[t].result.kind # "timeout"

\* C36: the envelope recvTyped returns to a synchronous operation is a
\* frame the relay sent in response to a request of that operation; a
\* frame caused by an earlier request, or by none, is never accepted.
C36_ReplyToOwnRequest ==
    [][\A t \in Callers : Accepted(t) => Head(respCh).re = call[t].id]_vars

\* the read loop takes the relay's reply to caller t's operation from the
\* socket in this step
ReadsReplyTo(t) ==
    /\ task["readLoop"] = "read"
    /\ inbox # <<>>
    /\ inbox' = Tail(inbox)
    /\ Awaiting(t)
    /\ opMu = t
    /\ Head(inbox).re = call[t].id

\* C33: while a synchronous operation holds the operation mutex and awaits
\* its reply, the read loop puts the relay's reply to it on respCh, whatever
\* respCh holds: it is never dropped.
C33_ReplyNotDropped ==
    [][\A t \in Callers : ReadsReplyTo(t) => respCh' = Append(respCh, Head(inbox))]_vars

\* C32: when an await returns, by a match or by the deadline, every
\* envelope it skipped is back on respCh, in the order skipped, behind what
\* respCh held; none is lost.
C32_SkippedRequeued ==
    [][\A t \in Callers :
          (task[t] = "recv" /\ task'[t] # "recv")
             => /\ Len(respCh') >= Len(call[t].queued)
                /\ SubSeq(respCh', Len(respCh') - Len(call[t].queued) + 1, Len(respCh'))
                      = call[t].queued]_vars

\* Properties of the bit test

\* C40: for every difficulty, negative, zero, up to the bits of the hash
\* and beyond them, the bit test of verifyPoW reads bits of the hash only:
\* no iteration of solvePoW indexes outside the hash, and solvePoW never
\* ends in a panic.
C40_BitTestDefined ==
    /\ pow.at # "panic"
    /\ pow.at = "loop" => ~indexOutOfRange(pow.challenge, pow.nonce, pow.difficulty)

\* Properties of a session's background tasks

\* C39: once the read loop of a session has exited, by a read error or by
\* Close, the session's ping loop eventually returns and from then on
\* writes nothing, and the collector the daemon started for the session
\* eventually is out of its range over the session's channel.
C39_TasksEndWithSession ==
    /\ (task["readLoop"] = "exited")
          ~> (task["pingLoop"] = "exited" /\ task["collectMessages"] # "range")
    /\ [][task["pingLoop"] = "exited" => task'["pingLoop"] = "exited"]_vars

\* Properties of the reconnect loop's recovery

\* the daemon holds a client whose session is alive
HoldsLive == client # Nil /\ session[client] = "live"

\* C35: the reference d.client is cleared only when the read loop of the
\* session it refers to has exited, and it is set only by a connect that
\* succeeded, to a session that is alive.  Once that read loop has exited
\* the reconnect loop eventually clears the reference; while it is cleared
\* /status reports connected=false and the commands get 503, and the loop
\* stays in its retry loop, where a further attempt is always possible,
\* until a connect succeeds.  On a relay that accepts connections the daemon
\* eventually holds a live client again.
C35_ReconnectRecovers ==
    /\ [][/\ (client # Nil /\ client' # client)
               => client' = Nil /\ session[client] = "dead"
          /\ (client = Nil /\ client' # Nil) => session'[client'] = "live"
          /\ (client = Nil /\ ev' = "http" /\ resp'.handler = "handleStatus")
               => resp'.status = 200 /\ resp'.body = Json(<<FALSE>>)
          /\ (client = Nil /\ ev' = "http" /\ req' \in Commands)
               => resp'.status = 503
          /\ client = Nil => pc = "backoff" /\ pc' \in {"backoff", "rejoin"}
          /\ (client = Nil /\ ev = "idle") => ENABLED connectFail]_vars
    /\ (client # Nil /\ session[client] = "dead") ~> (client = Nil)
    /\ (relay = "accepting" /\ client = Nil /\ \E s \in Sessions : session[s] = "none")
          ~> HoldsLive

\* the first session has died, an attempt has failed, and the daemon holds
\* the live client of the second
C35_Witness ==
    /\ session[1] = "dead"
    /\ client = 2
    /\ session[2] = "live"
    /\ pc = "wait"
    /\ relay = "accepting"

\* Properties of the locks

\* task t is at a c.mu.Lock()
WantsMu(t) ==
    \/ t = "Connect" /\ task[t] \in {"hello", "pow"}
    \/ t \in Callers /\ task[t] = "write"
    \/ /\ t \in Callers /\ task[t] = "recv" /\ respCh # <<>>
       /\ TypedMatch(Head(respCh), WantRoom(call[t]), WantTypes(call[t].op, call[t].phase))
       /\ ResultOn(call[t].op, Head(respCh)).kind = "RoomInfo"
    \/ t = "pingLoop" /\ task[t] = "tick"
    \/ t = "handleStop" /\ dmuHeld /\ task["Close"] = "off"
\* task t is at a d.mu.Lock() or d.mu.RLock(); the reconnect loop is the
\* task of its Wait
WantsDmu(t) ==
    \/ t = "handler" /\ task[t] = "d.mu"
    \/ t = "collectMessages" /\ task[t] = "range" /\ msgCh[1] # <<>>
    \/ t = "Wait" /\ task[t] = "returned"
\* the task that task t waits for: the holder of the lock it is at, the
\* collector when the read loop is at the insert into a full channel, the
\* read loop for Wait; "none" when it waits for no task (it runs, it is in
\* a socket write, or it awaits a reply up to the deadline)
WaitsOn(t) ==
    IF WantsMu(t) /\ mu # Free THEN mu
    ELSE IF t \in Callers /\ task[t] = "lockOp" /\ opMu # Free THEN opMu
    ELSE IF WantsDmu(t) /\ dmuHeld THEN "handleStop"
    ELSE IF t = "readLoop" /\ task[t] = "send" /\ ~CanSend(msgCh[1]) THEN "collectMessages"
    ELSE IF t = "Wait" /\ task[t] = "waiting" /\ task["readLoop"] # "exited" THEN "readLoop"
    ELSE "none"
\* the task at the end of n waits from t on
RECURSIVE Follows(_, _)
Follows(t, n) ==
    IF n = 0 THEN t
    ELSE LET u == Follows(t, n - 1)
         IN  IF u \in Tasks THEN WaitsOn(u) ELSE "none"

\* C38: in no reachable state do tasks wait for each other in a cycle over
\* d.mu, c.mu, opMu, the message channel and Wait: each task waits for at
\* most one other, and following from any task the task it waits for comes
\* to a task that waits for none (a cycle would be followed for ever).  The
\* holder of c.mu waits for no task, and handleStop, which holds d.mu over
\* Close, never holds the operation mutex.
C38_NoLockCycle ==
    /\ \A t \in Tasks : Follows(t, Cardinality(Tasks)) = "none"
    /\ mu # Free => WaitsOn(mu) = "none"
    /\ dmuHeld => opMu # "handleStop"

\* handleStop holds d.mu and waits for c.mu, which the ping loop holds in a
\* socket write; the collector waits for d.mu, the read loop for the
\* collector at a full channel, the reconnect loop for the read loop, a
\* handler for d.mu; one operation awaits its reply and another waits for
\* the operation mutex
C38_Witness ==
    /\ WaitsOn("handleStop") = "pingLoop"
    /\ WaitsOn("collectMessages") = "handleStop"
    /\ WaitsOn("readLoop") = "collectMessages"
    /\ WaitsOn("Wait") = "readLoop"
    /\ WaitsOn("handler") = "handleStop"
    /\ task["caller1"] = "recv"
    /\ WaitsOn("caller2") = "caller1"

=============================================================================
